---- MODULE Spec2Model ----
(***************************************************************************)
(* Model of vkfft-rs: the safe bridge between a builder-populated          *)
(* transform description and the VkFFT engine (src/src/config.rs), the     *)
(* execution plan and its launch parameters (src/src/app.rs) and the       *)
(* fence-gated submission protocol of the execution context                *)
(* (src/src/context.rs).                                                   *)
(***************************************************************************)
EXTENDS Integers, Sequences, FiniteSets, TLC

VARIABLES
  pc,           \* position of the calling thread
  builder,      \* the ConfigBuilder in the caller's hands (None once moved)
  config,       \* the Config produced by ConfigBuilder::build (or None)
  buildResult,  \* result of the last ConfigBuilder::build
  newResult,    \* result of the last App::new
  lpb,          \* the LaunchParamsBuilder in the caller's hands (or None)
  params,       \* the LaunchParams produced by LaunchParamsBuilder::build
  lpResult,     \* result of the last LaunchParamsBuilder::build
  launchResult, \* result of the last App::forward / App::inverse
  apps,         \* every App (Plan) ever boxed, indexed by engine object
  log,          \* the calls made into the engine and the driver, in order
  fence,        \* the Context's fence: "unsignaled" or "signaled"
  inflight,     \* command streams submitted against the fence, not yet completed
  streams,      \* every command stream ever allocated
  held,         \* what the caller owns: Plans, their LaunchParams, open builders
  frame,        \* locals of the Context call that is blocked in the fence wait
  opResult,     \* result of the last Context operation
  device,       \* capabilities of the Context's device
  refs,         \* strong references to each Vulkan object (0: destroyed)
  queue_state   \* the mutex of the Context's queue: the thread inside Queue::with

vars == <<pc, builder, config, buildResult, newResult, lpb, params, lpResult,
          launchResult, apps, log, fence, inflight, streams, held, frame,
          opResult, device, refs, queue_state>>

\* Option<T>: None is the empty set, Some(v) the singleton of v
None == {}
Some(v) == {v}
IsSome(o) == o # {}
Unwrap(o) == CHOOSE v \in o : TRUE

\* A null raw pointer
NULL == "null"

(***************************************************************************)
(* The resources the caller and the Context can hand to the builders.      *)
(***************************************************************************)
PhysicalDevices == {"ctx_physical", "other_physical"}
Devices         == {"ctx_device", "other_device"}
Queues          == {"ctx_queue", "other_queue"}
Fences          == {"ctx_fence", "other_fence"}
CommandPools    == {"ctx_pool", "other_pool"}
Buffers         == {"b1", "b2"}

\* Buffer::size() of each buffer, in bytes
BufferSize(b) == IF b = "b1" THEN 64 ELSE 128

\* bool -> u64 (`.into()`)
BoolToInt(b) == IF b THEN 1 ELSE 0

\* Option::unwrap_or
UnwrapOr(o, d) == IF IsSome(o) THEN Unwrap(o) ELSE d

Precisions == {"Single", "Double", "Half", "HalfMemory"}

(***************************************************************************)
(* config.rs: ConfigBuilder                                                *)
(***************************************************************************)
ConfigBuilder_new ==
  [ fft_dim |-> 1,
    size |-> <<1, 1, 1, 0>>,
    physical_device |-> None,
    device |-> None,
    queue |-> None,
    fence |-> None,
    command_pool |-> None,
    normalize |-> FALSE,
    zero_padding |-> <<FALSE, FALSE, FALSE>>,
    zeropad_left |-> <<0, 0, 0, 0>>,
    zeropad_right |-> <<0, 0, 0, 0>>,
    kernel_convolution |-> FALSE,
    r2c |-> FALSE,
    dct |-> None,
    dst |-> None,
    coordinate_features |-> 1,
    disable_reorder_four_step |-> FALSE,
    buffer |-> None,
    temp_buffer |-> None,
    input_buffer |-> None,
    output_buffer |-> None,
    batch_count |-> None,
    precision |-> "Single",
    convolution |-> FALSE,
    use_lut |-> FALSE,
    symmetric_kernel |-> FALSE,
    input_formatted |-> None,
    output_formatted |-> None,
    inverse_return_to_input |-> None,
    kernel |-> None,
    matrix_convolution |-> None ]

ConfigBuilder_physical_device(b, v) == [b EXCEPT !.physical_device = Some(v)]
ConfigBuilder_device(b, v)          == [b EXCEPT !.device = Some(v)]
ConfigBuilder_queue(b, v)           == [b EXCEPT !.queue = Some(v)]
ConfigBuilder_command_pool(b, v)    == [b EXCEPT !.command_pool = Some(v)]
ConfigBuilder_fence(b, v)           == [b EXCEPT !.fence = Some(v)]
ConfigBuilder_buffer(b, v)          == [b EXCEPT !.buffer = Some(v)]
ConfigBuilder_temp_buffer(b, v)     == [b EXCEPT !.temp_buffer = Some(v)]
ConfigBuilder_input_buffer(b, v)    == [b EXCEPT !.input_buffer = Some(v)]
ConfigBuilder_output_buffer(b, v)   == [b EXCEPT !.output_buffer = Some(v)]
ConfigBuilder_kernel(b, v)          == [b EXCEPT !.kernel = Some(v)]
\* ConfigBuilder::dim(&[u32; N]) for N <= 3 (a longer array fails the
\* assert): fft_dim becomes N and the first N extents are overwritten
ConfigBuilder_dim(b, dim) ==
  [b EXCEPT !.fft_dim = Len(dim),
            !.size = [i \in 1 .. 4 |-> IF i <= Len(dim) THEN dim[i] ELSE b.size[i]]]
ConfigBuilder_normalize(b)          == [b EXCEPT !.normalize = TRUE]
ConfigBuilder_convolution(b)        == [b EXCEPT !.convolution = TRUE]
ConfigBuilder_r2c(b)                == [b EXCEPT !.r2c = TRUE]
ConfigBuilder_dct(b, v)             == [b EXCEPT !.dct = Some(v)]
\* ConfigBuilder::dst assigns the dct field (config.rs 199-202)
ConfigBuilder_dst(b, v)             == [b EXCEPT !.dct = Some(v)]
ConfigBuilder_input_formatted(b, v)  == [b EXCEPT !.input_formatted = Some(v)]
ConfigBuilder_output_formatted(b, v) == [b EXCEPT !.output_formatted = Some(v)]

\* The five mandatory handles, in the order ConfigBuilder::build tests them,
\* each with the BuildError that names it.
MandatoryHandles ==
  << [field |-> "physical_device", error |-> "NoPhysicalDevice"],
     [field |-> "device",          error |-> "NoDevice"],
     [field |-> "queue",           error |-> "NoQueue"],
     [field |-> "fence",           error |-> "NoFence"],
     [field |-> "command_pool",    error |-> "NoCommandPool"] >>

\* ConfigBuilder::build with the errors of the queue and the fence exchanged
ConfigBuilder_build_swapped(b) ==
  IF b.physical_device = None THEN [res |-> "NoPhysicalDevice", config |-> None]
  ELSE IF b.device = None THEN [res |-> "NoDevice", config |-> None]
  ELSE IF b.queue = None THEN [res |-> "NoFence", config |-> None]
  ELSE IF b.fence = None THEN [res |-> "NoQueue", config |-> None]
  ELSE IF b.command_pool = None THEN [res |-> "NoCommandPool", config |-> None]
  ELSE [res |-> "Ok",
        config |-> Some([b EXCEPT !.physical_device = Unwrap(b.physical_device),
                                  !.device = Unwrap(b.device),
                                  !.queue = Unwrap(b.queue),
                                  !.fence = Unwrap(b.fence),
                                  !.command_pool = Unwrap(b.command_pool)])]

\* ConfigBuilder::build: Err(BuildError) for the first absent handle, else
\* Ok(Config): every field of the builder, the five handles unwrapped.
ConfigBuilder_build(b) ==
  IF b.physical_device = None THEN [res |-> "NoPhysicalDevice", config |-> None]
  ELSE IF b.device = None THEN [res |-> "NoDevice", config |-> None]
  ELSE IF b.queue = None THEN [res |-> "NoQueue", config |-> None]
  ELSE IF b.fence = None THEN [res |-> "NoFence", config |-> None]
  ELSE IF b.command_pool = None THEN [res |-> "NoCommandPool", config |-> None]
  ELSE [res |-> "Ok",
        config |-> Some([b EXCEPT !.physical_device = Unwrap(b.physical_device),
                                  !.device = Unwrap(b.device),
                                  !.queue = Unwrap(b.queue),
                                  !.fence = Unwrap(b.fence),
                                  !.command_pool = Unwrap(b.command_pool)])]

(***************************************************************************)
(* config.rs: Config::as_sys, the Native Configuration Projection          *)
(***************************************************************************)
\* A pointer to a sibling field of the pinned ConfigGuard
AddrOf(field) == "&" \o field

\* a KeepAlive that holds no clone of the queue
KeepAlive_without_queue(c) ==
  [ device |-> c.device,
    buffer |-> c.buffer,
    input_buffer |-> c.input_buffer,
    output_buffer |-> c.output_buffer,
    kernel |-> c.kernel,
    command_pool |-> c.command_pool,
    queue |-> NULL,
    temp_buffer |-> c.temp_buffer ]

\* KeepAlive: one strong reference per Arc cloned out of the Config
KeepAlive(c) ==
  [ device |-> c.device,
    buffer |-> c.buffer,
    input_buffer |-> c.input_buffer,
    output_buffer |-> c.output_buffer,
    kernel |-> c.kernel,
    command_pool |-> c.command_pool,
    queue |-> c.queue,
    temp_buffer |-> c.temp_buffer ]

\* b.size() of an optional buffer, 0 when the role is unset
SizeOrZero(o) == IF IsSome(o) THEN BufferSize(Unwrap(o)) ELSE 0

\* as_sys leaving the two formatted flags of a HalfMemory Config at the
\* caller's values
NativeConfig_formatted_only_if_set(c) ==
  [ FFTdim |-> c.fft_dim,
    size |-> c.size,
    physicalDevice |-> AddrOf("physical_device"),
    device |-> AddrOf("device"),
    queue |-> AddrOf("queue"),
    commandPool |-> AddrOf("command_pool"),
    fence |-> AddrOf("fence"),
    normalize |-> BoolToInt(c.normalize),
    kernelSize |-> IF SizeOrZero(c.kernel) # 0 THEN AddrOf("kernel_size") ELSE NULL,
    kernel |-> IF IsSome(c.kernel) THEN AddrOf("kernel") ELSE NULL,
    bufferSize |-> IF SizeOrZero(c.buffer) # 0 THEN AddrOf("buffer_size") ELSE NULL,
    buffer |-> IF IsSome(c.buffer) THEN AddrOf("buffer") ELSE NULL,
    userTempBuffer |-> IF SizeOrZero(c.temp_buffer) # 0 THEN 1 ELSE 0,
    tempBufferSize |-> IF SizeOrZero(c.temp_buffer) # 0 THEN AddrOf("temp_buffer_size") ELSE NULL,
    tempBuffer |-> IF IsSome(c.temp_buffer) THEN AddrOf("temp_buffer") ELSE NULL,
    inputBufferSize |-> IF SizeOrZero(c.input_buffer) # 0 THEN AddrOf("input_buffer_size") ELSE NULL,
    inputBuffer |-> IF IsSome(c.input_buffer) THEN AddrOf("input_buffer") ELSE NULL,
    outputBufferSize |-> IF SizeOrZero(c.output_buffer) # 0 THEN AddrOf("output_buffer_size") ELSE NULL,
    outputBuffer |-> IF IsSome(c.output_buffer) THEN AddrOf("output_buffer") ELSE NULL,
    performZeropadding |-> <<BoolToInt(c.zero_padding[1]), BoolToInt(c.zero_padding[2]),
                             BoolToInt(c.zero_padding[3])>>,
    fft_zeropad_left |-> c.zeropad_left,
    fft_zeropad_right |-> c.zeropad_right,
    performConvolution |-> BoolToInt(c.convolution),
    numberKernels |-> IF c.convolution THEN 1 ELSE 0,
    kernelConvolution |-> BoolToInt(c.kernel_convolution),
    performR2C |-> BoolToInt(c.r2c),
    performDCT |-> UnwrapOr(c.dct, 0),
    performDST |-> UnwrapOr(c.dst, 0),
    coordinateFeatures |-> c.coordinate_features,
    disableReorderFourStep |-> BoolToInt(c.disable_reorder_four_step),
    symmetricKernel |-> BoolToInt(c.symmetric_kernel),
    isInputFormatted |->
      IF IsSome(c.input_formatted) THEN BoolToInt(Unwrap(c.input_formatted)) ELSE 0,
    inverseReturnToInputBuffer |->
      IF IsSome(c.inverse_return_to_input) THEN BoolToInt(Unwrap(c.inverse_return_to_input)) ELSE 0,
    isOutputFormatted |->
      IF c.precision = "HalfMemory" THEN 1
      ELSE IF IsSome(c.output_formatted) THEN BoolToInt(Unwrap(c.output_formatted)) ELSE 0,
    doublePrecision |-> BoolToInt(c.precision = "Double"),
    halfPrecision |-> BoolToInt(c.precision = "Half"),
    halfPrecisionMemoryOnly |-> BoolToInt(c.precision = "HalfMemory"),
    numberBatches |-> UnwrapOr(c.batch_count, 0),
    matrixConvolution |-> UnwrapOr(c.matrix_convolution, 0) ]

\* as_sys never setting the size pointer of the kernel
NativeConfig_no_kernel_size(c) ==
  [ FFTdim |-> c.fft_dim,
    size |-> c.size,
    physicalDevice |-> AddrOf("physical_device"),
    device |-> AddrOf("device"),
    queue |-> AddrOf("queue"),
    commandPool |-> AddrOf("command_pool"),
    fence |-> AddrOf("fence"),
    normalize |-> BoolToInt(c.normalize),
    kernelSize |-> NULL,
    kernel |-> IF IsSome(c.kernel) THEN AddrOf("kernel") ELSE NULL,
    bufferSize |-> IF SizeOrZero(c.buffer) # 0 THEN AddrOf("buffer_size") ELSE NULL,
    buffer |-> IF IsSome(c.buffer) THEN AddrOf("buffer") ELSE NULL,
    userTempBuffer |-> IF SizeOrZero(c.temp_buffer) # 0 THEN 1 ELSE 0,
    tempBufferSize |-> IF SizeOrZero(c.temp_buffer) # 0 THEN AddrOf("temp_buffer_size") ELSE NULL,
    tempBuffer |-> IF IsSome(c.temp_buffer) THEN AddrOf("temp_buffer") ELSE NULL,
    inputBufferSize |-> IF SizeOrZero(c.input_buffer) # 0 THEN AddrOf("input_buffer_size") ELSE NULL,
    inputBuffer |-> IF IsSome(c.input_buffer) THEN AddrOf("input_buffer") ELSE NULL,
    outputBufferSize |-> IF SizeOrZero(c.output_buffer) # 0 THEN AddrOf("output_buffer_size") ELSE NULL,
    outputBuffer |-> IF IsSome(c.output_buffer) THEN AddrOf("output_buffer") ELSE NULL,
    performZeropadding |-> <<BoolToInt(c.zero_padding[1]), BoolToInt(c.zero_padding[2]),
                             BoolToInt(c.zero_padding[3])>>,
    fft_zeropad_left |-> c.zeropad_left,
    fft_zeropad_right |-> c.zeropad_right,
    performConvolution |-> BoolToInt(c.convolution),
    numberKernels |-> IF c.convolution THEN 1 ELSE 0,
    kernelConvolution |-> BoolToInt(c.kernel_convolution),
    performR2C |-> BoolToInt(c.r2c),
    performDCT |-> UnwrapOr(c.dct, 0),
    performDST |-> UnwrapOr(c.dst, 0),
    coordinateFeatures |-> c.coordinate_features,
    disableReorderFourStep |-> BoolToInt(c.disable_reorder_four_step),
    symmetricKernel |-> BoolToInt(c.symmetric_kernel),
    isInputFormatted |->
      IF c.precision = "HalfMemory" THEN 1
      ELSE IF IsSome(c.input_formatted) THEN BoolToInt(Unwrap(c.input_formatted)) ELSE 0,
    inverseReturnToInputBuffer |->
      IF IsSome(c.inverse_return_to_input) THEN BoolToInt(Unwrap(c.inverse_return_to_input)) ELSE 0,
    isOutputFormatted |->
      IF c.precision = "HalfMemory" THEN 1
      ELSE IF IsSome(c.output_formatted) THEN BoolToInt(Unwrap(c.output_formatted)) ELSE 0,
    doublePrecision |-> BoolToInt(c.precision = "Double"),
    halfPrecision |-> BoolToInt(c.precision = "Half"),
    halfPrecisionMemoryOnly |-> BoolToInt(c.precision = "HalfMemory"),
    numberBatches |-> UnwrapOr(c.batch_count, 0),
    matrixConvolution |-> UnwrapOr(c.matrix_convolution, 0) ]

\* as_sys deriving the kernel count from the presence of a kernel buffer
NativeConfig_kernels_from_kernel(c) ==
  [ FFTdim |-> c.fft_dim,
    size |-> c.size,
    physicalDevice |-> AddrOf("physical_device"),
    device |-> AddrOf("device"),
    queue |-> AddrOf("queue"),
    commandPool |-> AddrOf("command_pool"),
    fence |-> AddrOf("fence"),
    normalize |-> BoolToInt(c.normalize),
    kernelSize |-> IF SizeOrZero(c.kernel) # 0 THEN AddrOf("kernel_size") ELSE NULL,
    kernel |-> IF IsSome(c.kernel) THEN AddrOf("kernel") ELSE NULL,
    bufferSize |-> IF SizeOrZero(c.buffer) # 0 THEN AddrOf("buffer_size") ELSE NULL,
    buffer |-> IF IsSome(c.buffer) THEN AddrOf("buffer") ELSE NULL,
    userTempBuffer |-> IF SizeOrZero(c.temp_buffer) # 0 THEN 1 ELSE 0,
    tempBufferSize |-> IF SizeOrZero(c.temp_buffer) # 0 THEN AddrOf("temp_buffer_size") ELSE NULL,
    tempBuffer |-> IF IsSome(c.temp_buffer) THEN AddrOf("temp_buffer") ELSE NULL,
    inputBufferSize |-> IF SizeOrZero(c.input_buffer) # 0 THEN AddrOf("input_buffer_size") ELSE NULL,
    inputBuffer |-> IF IsSome(c.input_buffer) THEN AddrOf("input_buffer") ELSE NULL,
    outputBufferSize |-> IF SizeOrZero(c.output_buffer) # 0 THEN AddrOf("output_buffer_size") ELSE NULL,
    outputBuffer |-> IF IsSome(c.output_buffer) THEN AddrOf("output_buffer") ELSE NULL,
    performZeropadding |-> <<BoolToInt(c.zero_padding[1]), BoolToInt(c.zero_padding[2]),
                             BoolToInt(c.zero_padding[3])>>,
    fft_zeropad_left |-> c.zeropad_left,
    fft_zeropad_right |-> c.zeropad_right,
    performConvolution |-> BoolToInt(c.convolution),
    numberKernels |-> IF IsSome(c.kernel) THEN 1 ELSE 0,
    kernelConvolution |-> BoolToInt(c.kernel_convolution),
    performR2C |-> BoolToInt(c.r2c),
    performDCT |-> UnwrapOr(c.dct, 0),
    performDST |-> UnwrapOr(c.dst, 0),
    coordinateFeatures |-> c.coordinate_features,
    disableReorderFourStep |-> BoolToInt(c.disable_reorder_four_step),
    symmetricKernel |-> BoolToInt(c.symmetric_kernel),
    isInputFormatted |->
      IF c.precision = "HalfMemory" THEN 1
      ELSE IF IsSome(c.input_formatted) THEN BoolToInt(Unwrap(c.input_formatted)) ELSE 0,
    inverseReturnToInputBuffer |->
      IF IsSome(c.inverse_return_to_input) THEN BoolToInt(Unwrap(c.inverse_return_to_input)) ELSE 0,
    isOutputFormatted |->
      IF c.precision = "HalfMemory" THEN 1
      ELSE IF IsSome(c.output_formatted) THEN BoolToInt(Unwrap(c.output_formatted)) ELSE 0,
    doublePrecision |-> BoolToInt(c.precision = "Double"),
    halfPrecision |-> BoolToInt(c.precision = "Half"),
    halfPrecisionMemoryOnly |-> BoolToInt(c.precision = "HalfMemory"),
    numberBatches |-> UnwrapOr(c.batch_count, 0),
    matrixConvolution |-> UnwrapOr(c.matrix_convolution, 0) ]

\* The VkFFTConfiguration written by as_sys, 0 / NULL where as_sys leaves the
\* zeroed() record alone.
NativeConfig(c) ==
  [ FFTdim |-> c.fft_dim,
    size |-> c.size,
    physicalDevice |-> AddrOf("physical_device"),
    device |-> AddrOf("device"),
    queue |-> AddrOf("queue"),
    commandPool |-> AddrOf("command_pool"),
    fence |-> AddrOf("fence"),
    normalize |-> BoolToInt(c.normalize),
    kernelSize |-> IF SizeOrZero(c.kernel) # 0 THEN AddrOf("kernel_size") ELSE NULL,
    kernel |-> IF IsSome(c.kernel) THEN AddrOf("kernel") ELSE NULL,
    bufferSize |-> IF SizeOrZero(c.buffer) # 0 THEN AddrOf("buffer_size") ELSE NULL,
    buffer |-> IF IsSome(c.buffer) THEN AddrOf("buffer") ELSE NULL,
    userTempBuffer |-> IF SizeOrZero(c.temp_buffer) # 0 THEN 1 ELSE 0,
    tempBufferSize |-> IF SizeOrZero(c.temp_buffer) # 0 THEN AddrOf("temp_buffer_size") ELSE NULL,
    tempBuffer |-> IF IsSome(c.temp_buffer) THEN AddrOf("temp_buffer") ELSE NULL,
    inputBufferSize |-> IF SizeOrZero(c.input_buffer) # 0 THEN AddrOf("input_buffer_size") ELSE NULL,
    inputBuffer |-> IF IsSome(c.input_buffer) THEN AddrOf("input_buffer") ELSE NULL,
    outputBufferSize |-> IF SizeOrZero(c.output_buffer) # 0 THEN AddrOf("output_buffer_size") ELSE NULL,
    outputBuffer |-> IF IsSome(c.output_buffer) THEN AddrOf("output_buffer") ELSE NULL,
    performZeropadding |-> <<BoolToInt(c.zero_padding[1]), BoolToInt(c.zero_padding[2]),
                             BoolToInt(c.zero_padding[3])>>,
    fft_zeropad_left |-> c.zeropad_left,
    fft_zeropad_right |-> c.zeropad_right,
    performConvolution |-> BoolToInt(c.convolution),
    numberKernels |-> IF c.convolution THEN 1 ELSE 0,
    kernelConvolution |-> BoolToInt(c.kernel_convolution),
    performR2C |-> BoolToInt(c.r2c),
    performDCT |-> UnwrapOr(c.dct, 0),
    performDST |-> UnwrapOr(c.dst, 0),
    coordinateFeatures |-> c.coordinate_features,
    disableReorderFourStep |-> BoolToInt(c.disable_reorder_four_step),
    symmetricKernel |-> BoolToInt(c.symmetric_kernel),
    isInputFormatted |->
      IF c.precision = "HalfMemory" THEN 1
      ELSE IF IsSome(c.input_formatted) THEN BoolToInt(Unwrap(c.input_formatted)) ELSE 0,
    inverseReturnToInputBuffer |->
      IF IsSome(c.inverse_return_to_input) THEN BoolToInt(Unwrap(c.inverse_return_to_input)) ELSE 0,
    isOutputFormatted |->
      IF c.precision = "HalfMemory" THEN 1
      ELSE IF IsSome(c.output_formatted) THEN BoolToInt(Unwrap(c.output_formatted)) ELSE 0,
    doublePrecision |-> BoolToInt(c.precision = "Double"),
    halfPrecision |-> BoolToInt(c.precision = "Half"),
    halfPrecisionMemoryOnly |-> BoolToInt(c.precision = "HalfMemory"),
    numberBatches |-> UnwrapOr(c.batch_count, 0),
    matrixConvolution |-> UnwrapOr(c.matrix_convolution, 0) ]

\* ConfigGuard: the pinned record holding the native configuration, the raw
\* handle copies its pointers target, and the keep-alive set.
ConfigGuard(c) ==
  [ keep_alive |-> KeepAlive(c),
    config |-> NativeConfig(c),
    physical_device |-> c.physical_device,
    device |-> c.device,
    queue |-> c.queue,
    command_pool |-> c.command_pool,
    fence |-> c.fence,
    buffer_size |-> SizeOrZero(c.buffer),
    temp_buffer_size |-> SizeOrZero(c.temp_buffer),
    input_buffer_size |-> SizeOrZero(c.input_buffer),
    output_buffer_size |-> SizeOrZero(c.output_buffer),
    kernel_size |-> SizeOrZero(c.kernel),
    buffer |-> c.buffer,
    temp_buffer |-> c.temp_buffer,
    input_buffer |-> c.input_buffer,
    output_buffer |-> c.output_buffer,
    kernel |-> c.kernel ]

\* as_sys forgetting the output_formatted test
HalfMemoryRejects_input_only(c) ==
  /\ c.precision = "HalfMemory"
  /\ c.input_formatted = Some(FALSE)

\* The one validation of as_sys: HalfMemory with an explicit Some(false)
HalfMemoryRejects(c) ==
  /\ c.precision = "HalfMemory"
  /\ \/ c.input_formatted = Some(FALSE)
     \/ c.output_formatted = Some(FALSE)

\* as_sys also refusing r2c together with dct, and convolution without a
\* kernel buffer
Config_as_sys_cross_checked(c) ==
  IF \/ HalfMemoryRejects(c)
     \/ c.r2c /\ IsSome(c.dct)
     \/ c.convolution /\ c.kernel = None
  THEN [res |-> "InvalidConfig", guard |-> None]
  ELSE [res |-> "Ok", guard |-> Some(ConfigGuard(c))]

\* Config::as_sys: Err(InvalidConfig), the half-built guard being dropped, or
\* Ok(guard)
Config_as_sys(c) ==
  IF HalfMemoryRejects(c)
  THEN [res |-> "InvalidConfig", guard |-> None]
  ELSE [res |-> "Ok", guard |-> Some(ConfigGuard(c))]

(***************************************************************************)
(* app.rs: LaunchParamsBuilder, LaunchParams and its projection            *)
(***************************************************************************)
LaunchParamsBuilder_new ==
  [ buffer |-> None,
    command_buffer |-> None,
    input_buffer |-> None,
    kernel |-> None,
    output_buffer |-> None,
    temp_buffer |-> None ]

LaunchParamsBuilder_command_buffer(b, v) == [b EXCEPT !.command_buffer = Some(v)]
LaunchParamsBuilder_buffer(b, v)         == [b EXCEPT !.buffer = Some(v)]
LaunchParamsBuilder_temp_buffer(b, v)    == [b EXCEPT !.temp_buffer = Some(v)]
LaunchParamsBuilder_input_buffer(b, v)   == [b EXCEPT !.input_buffer = Some(v)]
LaunchParamsBuilder_output_buffer(b, v)  == [b EXCEPT !.output_buffer = Some(v)]
LaunchParamsBuilder_kernel(b, v)         == [b EXCEPT !.kernel = Some(v)]

\* LaunchParamsBuilder::build with the input and output overrides exchanged
LaunchParamsBuilder_build_exchanged(b) ==
  IF b.command_buffer = None
  THEN [res |-> "NoCommandBuffer", params |-> None]
  ELSE [res |-> "Ok",
        params |-> Some([ buffer |-> b.buffer,
                          command_buffer |-> Unwrap(b.command_buffer),
                          input_buffer |-> b.output_buffer,
                          output_buffer |-> b.input_buffer,
                          temp_buffer |-> b.temp_buffer,
                          kernel |-> b.kernel ])]

\* LaunchParamsBuilder::build
LaunchParamsBuilder_build(b) ==
  IF b.command_buffer = None
  THEN [res |-> "NoCommandBuffer", params |-> None]
  ELSE [res |-> "Ok",
        params |-> Some([ buffer |-> b.buffer,
                          command_buffer |-> Unwrap(b.command_buffer),
                          input_buffer |-> b.input_buffer,
                          output_buffer |-> b.output_buffer,
                          temp_buffer |-> b.temp_buffer,
                          kernel |-> b.kernel ])]

\* LaunchParams::as_sys: the pinned LaunchParamsGuard, raw handle copies and the
\* native record pointing at them
LaunchParams_as_sys(p) ==
  [ params |-> [ commandBuffer |-> AddrOf("command_buffer"),
                 buffer |-> IF IsSome(p.buffer) THEN AddrOf("buffer") ELSE NULL,
                 tempBuffer |-> IF IsSome(p.temp_buffer) THEN AddrOf("temp_buffer") ELSE NULL,
                 inputBuffer |-> IF IsSome(p.input_buffer) THEN AddrOf("input_buffer") ELSE NULL,
                 outputBuffer |-> IF IsSome(p.output_buffer) THEN AddrOf("output_buffer") ELSE NULL,
                 kernel |-> IF IsSome(p.kernel) THEN AddrOf("kernel") ELSE NULL ],
    command_buffer |-> p.command_buffer,
    buffer |-> p.buffer,
    temp_buffer |-> p.temp_buffer,
    input_buffer |-> p.input_buffer,
    output_buffer |-> p.output_buffer,
    kernel |-> p.kernel ]

(***************************************************************************)
(* The engine (VkFFT) and the calls made into it                           *)
(***************************************************************************)
VKFFT_SUCCESS == 0
\* status codes initializeVkFFT and VkFFTAppend may return
EngineStatuses == {VKFFT_SUCCESS, 1}

\* error.rs: a non-success status becomes a typed error carrying the code
check_error(status) == IF status = VKFFT_SUCCESS THEN "Ok" ELSE "VkFFTError"

\* One call into the engine or the driver. Unused fields are 0.
Event(op, app, dir, cb, status) ==
  [op |-> op, app |-> app, dir |-> dir, cb |-> cb, status |-> status]

(***************************************************************************)
(* app.rs: App (the Execution Plan)                                        *)
(***************************************************************************)
\* App::new tearing the engine object down itself before the failed Box is
\* dropped
App_new_explicit_teardown(c, id, status) ==
  LET sys_config == Config_as_sys(c) IN
  IF sys_config.res # "Ok"
  THEN [res |-> sys_config.res, app |-> None, events |-> <<>>]
  ELSE IF check_error(status) # "Ok"
  THEN [res |-> check_error(status),
        app |-> Some([state |-> "Destroyed", config |-> Unwrap(sys_config.guard)]),
        events |-> << Event("initializeVkFFT", id, 0, 0, status),
                      Event("deleteVkFFT", id, 0, 0, 0),
                      Event("deleteVkFFT", id, 0, 0, 0) >>]
  ELSE [res |-> "Ok",
        app |-> Some([state |-> "Initialized", config |-> Unwrap(sys_config.guard)]),
        events |-> << Event("initializeVkFFT", id, 0, 0, status) >>]

\* App::new not looking at the status initializeVkFFT returned
App_new_unchecked(c, id, status) ==
  LET sys_config == Config_as_sys(c) IN
  IF sys_config.res # "Ok"
  THEN [res |-> sys_config.res, app |-> None, events |-> <<>>]
  ELSE [res |-> "Ok",
        app |-> Some([state |-> "Initialized", config |-> Unwrap(sys_config.guard)]),
        events |-> << Event("initializeVkFFT", id, 0, 0, status) >>]

\* App::new on engine object `id`, the engine answering `status` to
\* initializeVkFFT.  res: the Result returned; app: the boxed App if one was
\* made (state "Initialized", or "Destroyed" when the failed Box was dropped);
\* events: the engine calls, in order.
App_new(c, id, status) ==
  LET sys_config == Config_as_sys(c) IN
  IF sys_config.res # "Ok"
  THEN [res |-> sys_config.res, app |-> None, events |-> <<>>]
  ELSE IF check_error(status) # "Ok"
  THEN [res |-> check_error(status),
        app |-> Some([state |-> "Destroyed", config |-> Unwrap(sys_config.guard)]),
        events |-> << Event("initializeVkFFT", id, 0, 0, status),
                      Event("deleteVkFFT", id, 0, 0, 0) >>]
  ELSE [res |-> "Ok",
        app |-> Some([state |-> "Initialized", config |-> Unwrap(sys_config.guard)]),
        events |-> << Event("initializeVkFFT", id, 0, 0, status) >>]

\* App::launch without the input-buffer conflict check
App_launch_no_input_check(app, id, p, inverse, status) ==
  LET guard == LaunchParams_as_sys(p) IN
  IF IsSome(app.config.buffer) /\ IsSome(guard.buffer)
  THEN [res |-> "ConfigSpecifiesBuffer", events |-> <<>>]
  ELSE IF IsSome(app.config.temp_buffer) /\ IsSome(guard.temp_buffer)
  THEN [res |-> "ConfigSpecifiesTempBuffer", events |-> <<>>]
  ELSE IF IsSome(app.config.output_buffer) /\ IsSome(guard.output_buffer)
  THEN [res |-> "ConfigSpecifiesOutputBuffer", events |-> <<>>]
  ELSE [res |-> check_error(status),
        events |-> << Event("VkFFTAppend", id, IF inverse THEN 1 ELSE -1,
                            guard.command_buffer, status) >>]

\* App::launch with the kernel treated like the other four roles
App_launch_kernel_checked(app, id, p, inverse, status) ==
  LET guard == LaunchParams_as_sys(p) IN
  IF IsSome(app.config.buffer) /\ IsSome(guard.buffer)
  THEN [res |-> "ConfigSpecifiesBuffer", events |-> <<>>]
  ELSE IF IsSome(app.config.temp_buffer) /\ IsSome(guard.temp_buffer)
  THEN [res |-> "ConfigSpecifiesTempBuffer", events |-> <<>>]
  ELSE IF IsSome(app.config.input_buffer) /\ IsSome(guard.input_buffer)
  THEN [res |-> "ConfigSpecifiesInputBuffer", events |-> <<>>]
  ELSE IF IsSome(app.config.output_buffer) /\ IsSome(guard.output_buffer)
  THEN [res |-> "ConfigSpecifiesOutputBuffer", events |-> <<>>]
  ELSE IF IsSome(app.config.kernel) /\ IsSome(guard.kernel)
  THEN [res |-> "ConfigSpecifiesKernel", events |-> <<>>]
  ELSE [res |-> check_error(status),
        events |-> << Event("VkFFTAppend", id, IF inverse THEN 1 ELSE -1,
                            guard.command_buffer, status) >>]

\* App::launch calling VkFFTAppend a second time when the first call fails
App_launch_retry(app, id, p, inverse, status) ==
  LET guard == LaunchParams_as_sys(p)
      call == Event("VkFFTAppend", id, IF inverse THEN 1 ELSE -1,
                    guard.command_buffer, status)
  IN
  IF IsSome(app.config.buffer) /\ IsSome(guard.buffer)
  THEN [res |-> "ConfigSpecifiesBuffer", events |-> <<>>]
  ELSE IF IsSome(app.config.temp_buffer) /\ IsSome(guard.temp_buffer)
  THEN [res |-> "ConfigSpecifiesTempBuffer", events |-> <<>>]
  ELSE IF IsSome(app.config.input_buffer) /\ IsSome(guard.input_buffer)
  THEN [res |-> "ConfigSpecifiesInputBuffer", events |-> <<>>]
  ELSE IF IsSome(app.config.output_buffer) /\ IsSome(guard.output_buffer)
  THEN [res |-> "ConfigSpecifiesOutputBuffer", events |-> <<>>]
  ELSE [res |-> check_error(status),
        events |-> IF status = VKFFT_SUCCESS THEN <<call>> ELSE <<call, call>>]

\* App::launch on engine object `id`: the role-conflict checks in source
\* order, then VkFFTAppend answering `status`.
App_launch(app, id, p, inverse, status) ==
  LET guard == LaunchParams_as_sys(p) IN
  IF IsSome(app.config.buffer) /\ IsSome(guard.buffer)
  THEN [res |-> "ConfigSpecifiesBuffer", events |-> <<>>]
  ELSE IF IsSome(app.config.temp_buffer) /\ IsSome(guard.temp_buffer)
  THEN [res |-> "ConfigSpecifiesTempBuffer", events |-> <<>>]
  ELSE IF IsSome(app.config.input_buffer) /\ IsSome(guard.input_buffer)
  THEN [res |-> "ConfigSpecifiesInputBuffer", events |-> <<>>]
  ELSE IF IsSome(app.config.output_buffer) /\ IsSome(guard.output_buffer)
  THEN [res |-> "ConfigSpecifiesOutputBuffer", events |-> <<>>]
  ELSE [res |-> check_error(status),
        events |-> << Event("VkFFTAppend", id, IF inverse THEN 1 ELSE -1,
                            guard.command_buffer, status) >>]

\* forward passing the direction of inverse
App_forward_as_inverse(app, id, p, status) == App_launch(app, id, p, TRUE, status)

\* App::forward and App::inverse: launch with inverse = false / true
App_forward(app, id, p, status) == App_launch(app, id, p, FALSE, status)
App_inverse(app, id, p, status) == App_launch(app, id, p, TRUE, status)

\* impl Drop for App
App_drop(app, id) ==
  [app |-> [app EXCEPT !.state = "Destroyed"],
   events |-> << Event("deleteVkFFT", id, 0, 0, 0) >>]

(***************************************************************************)
(* SpecBuild: a caller populates a ConfigBuilder, builds the Config, may   *)
(* write the Config's public precision field, and hands it to App::new.    *)
(***************************************************************************)
launchVars == <<lpb, params, lpResult, launchResult>>
contextVars == <<fence, inflight, streams, held, frame, opResult, device, refs, queue_state>>

\* the caller owns nothing yet
EmptyHeld == [apps |-> {}, params |-> {}, builders |-> {}, cbs |-> {}]

\* reference counts are followed in SpecKeep only
NoRefs == <<>>

InitIdle ==
  /\ lpb = None /\ params = None
  /\ lpResult = "NotCalled" /\ launchResult = "NotCalled"
  /\ fence = "unsignaled" /\ inflight = {} /\ streams = <<>>
  /\ held = EmptyHeld /\ frame = None /\ opResult = "NotCalled"
  /\ device = [synchronization2 |-> FALSE, api_version |-> 10]
  /\ refs = NoRefs
  /\ queue_state = None

InitBuild ==
  /\ pc = "building"
  /\ builder = Some(ConfigBuilder_new)
  /\ config = None
  /\ buildResult = "NotCalled" /\ newResult = "NotCalled"
  /\ apps = <<>> /\ log = <<>>
  /\ InitIdle

\* one chained setter call on the builder
BuilderCall(next) ==
  /\ pc = "building"
  /\ builder' = Some(next)
  /\ UNCHANGED <<pc, config, buildResult, newResult, apps, log, launchVars, contextVars>>

Call_physical_device ==
  \E v \in PhysicalDevices : BuilderCall(ConfigBuilder_physical_device(Unwrap(builder), v))
Call_device ==
  \E v \in Devices : BuilderCall(ConfigBuilder_device(Unwrap(builder), v))
Call_queue ==
  \E v \in Queues : BuilderCall(ConfigBuilder_queue(Unwrap(builder), v))
Call_fence ==
  \E v \in Fences : BuilderCall(ConfigBuilder_fence(Unwrap(builder), v))
Call_command_pool ==
  \E v \in CommandPools : BuilderCall(ConfigBuilder_command_pool(Unwrap(builder), v))
Call_buffer ==
  \E v \in Buffers : BuilderCall(ConfigBuilder_buffer(Unwrap(builder), v))
Call_input_formatted ==
  \E v \in BOOLEAN : BuilderCall(ConfigBuilder_input_formatted(Unwrap(builder), v))
Call_output_formatted ==
  \E v \in BOOLEAN : BuilderCall(ConfigBuilder_output_formatted(Unwrap(builder), v))

\* builder.build(): the builder is moved into the call
Call_build ==
  /\ pc = "building"
  /\ LET r == ConfigBuilder_build(Unwrap(builder)) IN
       /\ buildResult' = r.res
       /\ config' = r.config
  /\ builder' = None
  /\ pc' = "built"
  /\ UNCHANGED <<newResult, apps, log, launchVars, contextVars>>

\* config.precision = p: Config's fields are public, and no builder option
\* sets the precision
Write_precision ==
  /\ pc = "built"
  /\ IsSome(config)
  /\ \E p \in Precisions : config' = Some([Unwrap(config) EXCEPT !.precision = p])
  /\ UNCHANGED <<pc, builder, buildResult, newResult, apps, log, launchVars, contextVars>>

\* App::new(config): the Config is moved into the call
Call_App_new ==
  /\ pc = "built"
  /\ IsSome(config)
  /\ \E status \in EngineStatuses :
       LET r == App_new(Unwrap(config), Len(apps) + 1, status) IN
         /\ newResult' = r.res
         /\ apps' = IF IsSome(r.app) THEN Append(apps, Unwrap(r.app)) ELSE apps
         /\ log' = log \o r.events
  /\ config' = None
  /\ pc' = "new_done"
  /\ UNCHANGED <<builder, buildResult, launchVars, contextVars>>

\* the caller lets go of the Plan App::new returned
Drop_app ==
  /\ pc = "new_done"
  /\ newResult = "Ok"
  /\ LET r == App_drop(apps[Len(apps)], Len(apps)) IN
       /\ apps' = [apps EXCEPT ![Len(apps)] = r.app]
       /\ log' = log \o r.events
  /\ pc' = "released"
  /\ UNCHANGED <<builder, config, buildResult, newResult, launchVars, contextVars>>

NextBuild ==
  \/ Call_physical_device
  \/ Call_device
  \/ Call_queue
  \/ Call_fence
  \/ Call_command_pool
  \/ Call_buffer
  \/ Call_input_formatted
  \/ Call_output_formatted
  \/ Call_build
  \/ Write_precision
  \/ Call_App_new
  \/ Drop_app

SpecBuild == InitBuild /\ [][NextBuild]_vars

(***************************************************************************)
(* Claims settled under SpecBuild                                          *)
(***************************************************************************)
\* the mandatory handles of builder b that were never set
AbsentHandles(b) ==
  {i \in DOMAIN MandatoryHandles : b[MandatoryHandles[i].field] = None}

\* the first of them in the order physical device, device, queue, fence,
\* command pool
FirstAbsent(b) ==
  CHOOSE i \in AbsentHandles(b) : \A j \in AbsentHandles(b) : i <= j

\* C1: whenever build is called on a builder in which a mandatory handle was
\* never set, it returns the BuildError naming an absent handle (the first
\* absent one, hence the absent one when only one is absent), produces no
\* Config and calls nothing in the engine; and as long as that error is the
\* outcome, there is no Config, no Plan and no engine call.
C1_MissingField ==
  /\ [][(pc = "building" /\ pc' = "built" /\ AbsentHandles(Unwrap(builder)) # {})
          => /\ buildResult' = MandatoryHandles[FirstAbsent(Unwrap(builder))].error
             /\ config' = None
             /\ log' = log /\ apps' = apps]_vars
  /\ [](buildResult \in {MandatoryHandles[i].error : i \in DOMAIN MandatoryHandles}
          => (config = None /\ log = <<>> /\ apps = <<>>))

\* C1 witness: build has failed for a builder that lacked only the command pool
C1_Witness ==
  /\ pc = "built"
  /\ buildResult = "NoCommandPool"

\* C2: whenever App::new is given a Config with precision HalfMemory and
\* input_formatted = Some(false) or output_formatted = Some(false), it returns
\* InvalidConfig, makes no call into the engine and boxes no Plan.
C2_HalfMemoryInvalid ==
  [][(pc = "built" /\ pc' = "new_done"
        /\ Unwrap(config).precision = "HalfMemory"
        /\ (Unwrap(config).input_formatted = Some(FALSE)
              \/ Unwrap(config).output_formatted = Some(FALSE)))
       => /\ newResult' = "InvalidConfig"
          /\ log' = log
          /\ apps' = apps]_vars

\* C2 witness: App::new has rejected a HalfMemory Config
C2_Witness ==
  /\ pc = "new_done"
  /\ newResult = "InvalidConfig"
  /\ log = <<>>

(***************************************************************************)
(* SpecLaunch: a caller owns an initialized Plan, populates a              *)
(* LaunchParamsBuilder, builds the LaunchParams and calls forward and      *)
(* inverse on the Plan with them.  SpecParams is the builder alone.        *)
(***************************************************************************)
\* raw VkCommandBuffer handles
CommandBuffers == {1, 2}

\* engine calls a behaviour of SpecLaunch may log
MaxLog == 3

BufferRoles == {"buffer", "temp_buffer", "input_buffer", "output_buffer", "kernel"}

\* the Context's handles filled in only where the builder has none
WithContextHandles_keeps_set(b) ==
  [b EXCEPT !.physical_device = IF IsSome(@) THEN @ ELSE Some("ctx_physical"),
            !.device = IF IsSome(@) THEN @ ELSE Some("ctx_device"),
            !.fence = IF IsSome(@) THEN @ ELSE Some("ctx_fence"),
            !.queue = IF IsSome(@) THEN @ ELSE Some("ctx_queue"),
            !.command_pool = IF IsSome(@) THEN @ ELSE Some("ctx_pool")]

\* what Context::start_fft_chain adds to a caller's builder (context.rs 223-229)
WithContextHandles(b) ==
  ConfigBuilder_command_pool(
    ConfigBuilder_queue(
      ConfigBuilder_fence(
        ConfigBuilder_device(
          ConfigBuilder_physical_device(b, "ctx_physical"),
          "ctx_device"),
        "ctx_fence"),
      "ctx_queue"),
    "ctx_pool")

\* a builder with buffer b1 bound to each role of `roles`
BuilderBinding(roles) ==
  [r \in DOMAIN ConfigBuilder_new |->
     IF r \in roles THEN Some("b1") ELSE ConfigBuilder_new[r]]

InitParams ==
  /\ pc = "lp_building"
  /\ lpb = Some(LaunchParamsBuilder_new)
  /\ params = None
  /\ lpResult = "NotCalled" /\ launchResult = "NotCalled"
  /\ builder = None /\ config = None
  /\ buildResult = "NotCalled" /\ newResult = "NotCalled"
  /\ apps = <<>> /\ log = <<>>
  /\ fence = "unsignaled" /\ inflight = {} /\ streams = <<>>
  /\ held = EmptyHeld /\ frame = None /\ opResult = "NotCalled"
  /\ device = [synchronization2 |-> FALSE, api_version |-> 10]
  /\ refs = NoRefs
  /\ queue_state = None

\* the Plan of SpecLaunch: App::new succeeded on a Config binding any set of
\* roles
InitLaunch ==
  /\ pc = "lp_building"
  /\ lpb = Some(LaunchParamsBuilder_new)
  /\ params = None
  /\ lpResult = "NotCalled" /\ launchResult = "NotCalled"
  /\ builder = None /\ config = None
  /\ buildResult = "Ok" /\ newResult = "Ok"
  /\ \E roles \in SUBSET BufferRoles :
       LET c == Unwrap(ConfigBuilder_build(WithContextHandles(BuilderBinding(roles))).config)
           r == App_new(c, 1, VKFFT_SUCCESS)
       IN /\ apps = << Unwrap(r.app) >>
          /\ log = r.events
  /\ fence = "unsignaled" /\ inflight = {} /\ streams = <<>>
  /\ held = EmptyHeld /\ frame = None /\ opResult = "NotCalled"
  /\ device = [synchronization2 |-> FALSE, api_version |-> 10]
  /\ refs = NoRefs
  /\ queue_state = None

buildVars == <<builder, config, buildResult, newResult>>

\* one chained setter call on the LaunchParamsBuilder
LaunchBuilderCall(next) ==
  /\ pc = "lp_building"
  /\ lpb' = Some(next)
  /\ UNCHANGED <<pc, params, lpResult, launchResult, apps, log, buildVars, contextVars>>

LP_command_buffer ==
  \E v \in CommandBuffers :
    LaunchBuilderCall(LaunchParamsBuilder_command_buffer(Unwrap(lpb), v))
LP_buffer(bufs) ==
  \E v \in bufs : LaunchBuilderCall(LaunchParamsBuilder_buffer(Unwrap(lpb), v))
LP_temp_buffer(bufs) ==
  \E v \in bufs : LaunchBuilderCall(LaunchParamsBuilder_temp_buffer(Unwrap(lpb), v))
LP_input_buffer(bufs) ==
  \E v \in bufs : LaunchBuilderCall(LaunchParamsBuilder_input_buffer(Unwrap(lpb), v))
LP_output_buffer(bufs) ==
  \E v \in bufs : LaunchBuilderCall(LaunchParamsBuilder_output_buffer(Unwrap(lpb), v))
LP_kernel(bufs) ==
  \E v \in bufs : LaunchBuilderCall(LaunchParamsBuilder_kernel(Unwrap(lpb), v))

\* builder.build(): the builder is moved into the call
LP_build ==
  /\ pc = "lp_building"
  /\ LET r == LaunchParamsBuilder_build(Unwrap(lpb)) IN
       /\ lpResult' = r.res
       /\ params' = r.params
  /\ lpb' = None
  /\ pc' = "lp_built"
  /\ UNCHANGED <<launchResult, apps, log, buildVars, contextVars>>

\* app.forward(&mut params) / app.inverse(&mut params) on the caller's Plan
CallLaunch(inverse) ==
  /\ pc = "lp_built"
  /\ IsSome(params)
  /\ Len(log) < MaxLog
  /\ \E status \in EngineStatuses :
       LET r == IF inverse THEN App_inverse(apps[1], 1, Unwrap(params), status)
                           ELSE App_forward(apps[1], 1, Unwrap(params), status)
       IN /\ launchResult' = r.res
          /\ log' = log \o r.events
  /\ UNCHANGED <<pc, lpb, params, lpResult, apps, buildVars, contextVars>>

Call_forward == CallLaunch(FALSE)
Call_inverse == CallLaunch(TRUE)

\* the caller lets go of the Plan
Drop_plan ==
  /\ pc = "lp_built"
  /\ LET r == App_drop(apps[1], 1) IN
       /\ apps' = [apps EXCEPT ![1] = r.app]
       /\ log' = log \o r.events
  /\ pc' = "released"
  /\ UNCHANGED <<lpb, params, lpResult, launchResult, buildVars, contextVars>>

NextParams ==
  \/ LP_command_buffer
  \/ LP_buffer(Buffers)
  \/ LP_temp_buffer(Buffers)
  \/ LP_input_buffer(Buffers)
  \/ LP_output_buffer(Buffers)
  \/ LP_kernel(Buffers)
  \/ LP_build

SpecParams == InitParams /\ [][NextParams]_vars

NextLaunch ==
  \/ LP_command_buffer
  \/ LP_buffer({"b2"})
  \/ LP_temp_buffer({"b2"})
  \/ LP_input_buffer({"b2"})
  \/ LP_output_buffer({"b2"})
  \/ LP_kernel({"b2"})
  \/ LP_build
  \/ Call_forward
  \/ Call_inverse
  \/ Drop_plan

SpecLaunch == InitLaunch /\ [][NextLaunch]_vars

(***************************************************************************)
(* Claims settled under SpecParams and SpecLaunch                          *)
(***************************************************************************)
\* C3: build on a LaunchParamsBuilder without a command buffer returns
\* NoCommandBuffer and no LaunchParams, whatever overrides were set; with a
\* command buffer it returns LaunchParams carrying that handle and, role by
\* role, the overrides of the builder.
C3_NoCommandBuffer ==
  [][(pc = "lp_building" /\ pc' = "lp_built")
       => IF Unwrap(lpb).command_buffer = None
          THEN /\ lpResult' = "NoCommandBuffer"
               /\ params' = None
          ELSE /\ lpResult' = "Ok"
               /\ IsSome(params')
               /\ Unwrap(params').command_buffer = Unwrap(Unwrap(lpb).command_buffer)
               /\ \A r \in BufferRoles : Unwrap(params')[r] = Unwrap(lpb)[r]]_vars

\* C3 witness: build has failed on a builder without a command buffer
C3_Witness ==
  /\ pc = "lp_built"
  /\ lpResult = "NoCommandBuffer"
  /\ params = None

\* the four roles App::launch checks, in the order it checks them
CheckedRoles == <<"buffer", "temp_buffer", "input_buffer", "output_buffer">>

RoleError(r) ==
  CASE r = "buffer" -> "ConfigSpecifiesBuffer"
    [] r = "temp_buffer" -> "ConfigSpecifiesTempBuffer"
    [] r = "input_buffer" -> "ConfigSpecifiesInputBuffer"
    [] r = "output_buffer" -> "ConfigSpecifiesOutputBuffer"
    [] r = "kernel" -> "ConfigSpecifiesKernel"

\* role r is bound by the Plan's configuration and by the launch parameters
BothSpecify(r) ==
  /\ IsSome(params)
  /\ IsSome(apps[1].config[r])
  /\ IsSome(Unwrap(params)[r])

\* positions in CheckedRoles of the roles in conflict
Conflicts == {i \in DOMAIN CheckedRoles : BothSpecify(CheckedRoles[i])}

FirstConflict == CHOOSE i \in Conflicts : \A j \in Conflicts : i <= j

\* the VkFFTAppend calls in the log
Appends == {i \in DOMAIN log : log[i].op = "VkFFTAppend"}

\* C4 as claimed: for each of the four roles, if the configuration and the
\* launch parameters both specify it, every forward/inverse returns that
\* role's ConfigSpecifies error and VkFFTAppend is not called.
C4_Original ==
  \A i \in DOMAIN CheckedRoles :
    BothSpecify(CheckedRoles[i])
      => /\ launchResult \in {"NotCalled", RoleError(CheckedRoles[i])}
         /\ Appends = {}

\* C4 amended: if the configuration and the launch parameters both specify
\* any of the four roles, every forward/inverse returns the ConfigSpecifies
\* error of the first such role in the order primary, temp, input, output,
\* and VkFFTAppend is not called.
C4_FirstConflict ==
  Conflicts # {}
    => /\ launchResult \in {"NotCalled", RoleError(CheckedRoles[FirstConflict])}
       /\ Appends = {}

\* C4 witness: a launch was refused for the output buffer, the only conflict
C4_Witness ==
  /\ Conflicts = {4}
  /\ launchResult = "ConfigSpecifiesOutputBuffer"

\* C5: ConfigSpecifiesKernel is never returned; and when the kernel is bound
\* by the configuration and by the launch parameters and none of the four
\* checked roles conflicts, every forward/inverse ends in the engine's
\* append call, whose status decides the result.
C5_KernelExempt ==
  /\ launchResult # "ConfigSpecifiesKernel"
  /\ (BothSpecify("kernel") /\ Conflicts = {} /\ launchResult # "NotCalled")
       => /\ Appends # {}
          /\ LET last == log[CHOOSE i \in Appends : \A j \in Appends : j <= i]
             IN launchResult = IF last.status = VKFFT_SUCCESS THEN "Ok" ELSE "VkFFTError"

\* C5 witness: a launch with a kernel on both sides has reached VkFFTAppend
C5_Witness ==
  /\ BothSpecify("kernel")
  /\ launchResult = "Ok"
  /\ Appends # {}

\* C8: every forward/inverse that reaches the engine logs exactly one
\* VkFFTAppend, on the Plan's engine object, with the command buffer of the
\* launch parameters, and returns the status as a value, leaving the Plan as
\* it was; after a failed append the Plan is still Initialized, was neither
\* torn down nor initialised again, and the caller still holds it and the
\* launch parameters, so that the next forward/inverse appends again.
C8_AppendFailure ==
  /\ [][(pc = "lp_built" /\ pc' = "lp_built" /\ log' # log)
          => /\ Len(log') = Len(log) + 1
             /\ SubSeq(log', 1, Len(log)) = log
             /\ log'[Len(log')].op = "VkFFTAppend"
             /\ log'[Len(log')].app = 1
             /\ log'[Len(log')].cb = Unwrap(params).command_buffer
             /\ launchResult' = IF log'[Len(log')].status = VKFFT_SUCCESS
                                 THEN "Ok" ELSE "VkFFTError"
             /\ apps' = apps /\ params' = params]_vars
  /\ []((pc = "lp_built" /\ launchResult = "VkFFTError")
          => /\ apps[1].state = "Initialized"
             /\ IsSome(params)
             /\ Cardinality({i \in DOMAIN log : log[i].op = "initializeVkFFT"}) = 1
             /\ \A i \in DOMAIN log : log[i].op # "deleteVkFFT")

\* C8 witness: an append failed and a later launch on the same Plan reached
\* VkFFTAppend again
C8_Witness ==
  \E i, j \in Appends :
    /\ i < j
    /\ log[i].status # VKFFT_SUCCESS
    /\ log[i].app = log[j].app
    /\ apps[log[i].app].state = "Initialized"

(***************************************************************************)
(* context.rs: the Execution Context                                       *)
(***************************************************************************)
VK_SUCCESS == 0
\* results the three queue-submission entry points may return
SubmitResults == {VK_SUCCESS, -4}

\* Version::V1_3, as major * 10 + minor
V1_3 == 13

\* engine objects, command streams and logged calls a behaviour may reach
MaxApps == 2
MaxStreams == 2
MaxEvents == 5
\* logged calls after which a behaviour of SpecSubmit starts no further call
MaxSubmitEvents == 8
\* logged calls after which a behaviour of SpecSubmit extends no chain
MaxChainEvents == 3

\* the ConfigBuilders a caller hands to the Context: nothing bound; the
\* primary buffer bound and handles of another device already set
CallerBuilders ==
  { ConfigBuilder_new,
    ConfigBuilder_fence(
      ConfigBuilder_physical_device(ConfigBuilder_buffer(ConfigBuilder_new, "b1"),
                                    "other_physical"),
      "other_fence") }

FftTypes == {"Forward", "Inverse"}

\* the entry point chosen by the API version first
SubmitEntryPoint_by_version(dev) ==
  IF dev.api_version >= V1_3 THEN "queue_submit2"
  ELSE IF dev.synchronization2 THEN "queue_submit2_khr"
  ELSE "queue_submit"

\* the entry point submit selects (context.rs 127, 133, 174)
SubmitEntryPoint(dev) ==
  IF dev.synchronization2
  THEN IF dev.api_version >= V1_3 THEN "queue_submit2" ELSE "queue_submit2_khr"
  ELSE "queue_submit"

\* a failed launch leaving the new Plan alive instead of dropping it
LaunchedPlan_leaks(lp, n, l, d) ==
  IF l.res # "Ok"
  THEN [res |-> l.res, plan |-> n.app, params |-> None,
        events |-> n.events \o l.events]
  ELSE [res |-> "Ok", plan |-> n.app, params |-> lp.params,
        events |-> n.events \o l.events]

\* the result of lines 222-234 when the forward or inverse launch returned l:
\* on an error the Plan n.app is dropped with the other locals (d)
LaunchedPlan(lp, n, l, d) ==
  IF l.res # "Ok"
  THEN [res |-> l.res, plan |-> Some(d.app), params |-> None,
        events |-> n.events \o l.events \o d.events]
  ELSE [res |-> "Ok", plan |-> n.app, params |-> lp.params,
        events |-> n.events \o l.events]

\* lines 230-234: App::new returned n; one forward or inverse on the new Plan
LaunchNewPlan(lp, n, fft_type, id, appendStatus) ==
  IF n.res # "Ok"
  THEN [res |-> n.res, plan |-> n.app, params |-> None, events |-> n.events]
  ELSE LaunchedPlan(lp, n,
                    IF fft_type = "Forward"
                    THEN App_forward(Unwrap(n.app), id, Unwrap(lp.params), appendStatus)
                    ELSE App_inverse(Unwrap(n.app), id, Unwrap(lp.params), appendStatus),
                    App_drop(Unwrap(n.app), id))

\* lines 222-230: the LaunchParams lp and the Config cf were built
PlanFromConfig(lp, cf, fft_type, id, initStatus, appendStatus) ==
  IF lp.res # "Ok" THEN [res |-> lp.res, plan |-> None, params |-> None, events |-> <<>>]
  ELSE IF cf.res # "Ok" THEN [res |-> cf.res, plan |-> None, params |-> None, events |-> <<>>]
  ELSE LaunchNewPlan(lp, App_new(Unwrap(cf.config), id, initStatus), fft_type, id,
                     appendStatus)

\* lines 222-234 of start_fft_chain, repeated as 256-268 of
\* chain_fft_with_config: LaunchParams on command stream s, a Config with the
\* Context's handles, App::new, one forward or inverse.  `id` is the engine
\* object App::new would box.  On an error the locals are dropped: a Plan
\* made by App::new is torn down.
NewPlanAndLaunch(b, s, fft_type, id, initStatus, appendStatus) ==
  PlanFromConfig(
    LaunchParamsBuilder_build(LaunchParamsBuilder_command_buffer(LaunchParamsBuilder_new, s)),
    ConfigBuilder_build(WithContextHandles(b)),
    fft_type, id, initStatus, appendStatus)

\* the apps after a call that boxed `plan` (if any)
WithPlan(plan) == IF IsSome(plan) THEN Append(apps, Unwrap(plan)) ELSE apps

\* what start_fft_chain returns and leaves behind when lines 222-234 gave r:
\* the new command stream is dropped with the other locals on an error
ChainStarted(r) ==
  [res |-> r.res,
   apps |-> WithPlan(r.plan),
   streams |-> Append(streams, IF r.res = "Ok" THEN "recording" ELSE "dropped"),
   events |-> r.events,
   params |-> r.params]

\* Context::start_fft_chain.  allocOk: whether AutoCommandBufferBuilder::primary
\* succeeded.
Context_start_fft_chain(b, fft_type, allocOk, initStatus, appendStatus) ==
  IF ~allocOk
  THEN [res |-> "VulkanError", apps |-> apps, streams |-> streams,
        events |-> <<>>, params |-> None]
  ELSE ChainStarted(NewPlanAndLaunch(b, Len(streams) + 1, fft_type, Len(apps) + 1,
                                     initStatus, appendStatus))

\* chain_fft_with_config discarding the new Plan before it returns
ChainExtended_discards(r, s) ==
  IF r.res = "Ok"
  THEN [res |-> r.res,
        apps |-> Append(apps, [Unwrap(r.plan) EXCEPT !.state = "Destroyed"]),
        streams |-> streams,
        events |-> Append(r.events, Event("deleteVkFFT", Len(apps) + 1, 0, 0, 0)),
        params |-> r.params]
  ELSE [res |-> r.res,
        apps |-> WithPlan(r.plan),
        streams |-> [streams EXCEPT ![s] = "dropped"],
        events |-> r.events,
        params |-> r.params]

\* what chain_fft_with_config returns and leaves behind when lines 256-268
\* gave r: the command stream s is dropped on an error
ChainExtended(r, s) ==
  [res |-> r.res,
   apps |-> WithPlan(r.plan),
   streams |-> IF r.res = "Ok" THEN streams ELSE [streams EXCEPT ![s] = "dropped"],
   events |-> r.events,
   params |-> r.params]

\* Context::chain_fft_with_config on the open command stream s, which is moved
\* into the call
Context_chain_fft_with_config(b, s, fft_type, initStatus, appendStatus) ==
  ChainExtended(NewPlanAndLaunch(b, s, fft_type, Len(apps) + 1, initStatus, appendStatus), s)

\* chain_fft_with_app keeping the Plan alive on an error
ChainedWithApp_keeps_plan(id, l, d) ==
  IF l.res # "Ok"
  THEN [res |-> l.res, apps |-> apps, events |-> l.events]
  ELSE [res |-> "Ok", apps |-> apps, events |-> l.events]

\* what chain_fft_with_app returns and leaves behind when the launch returned
\* l: the Plan is handed back on success and dropped (d) on an error
ChainedWithApp(id, l, d) ==
  IF l.res # "Ok"
  THEN [res |-> l.res, apps |-> [apps EXCEPT ![id] = d.app],
        events |-> l.events \o d.events]
  ELSE [res |-> "Ok", apps |-> apps, events |-> l.events]

\* chain_fft_with_app launching forward whatever direction is asked for
Context_chain_fft_with_app_forward_only(id, p, fft_type, appendStatus) ==
  ChainedWithApp(id, App_forward(apps[id], id, p, appendStatus), App_drop(apps[id], id))

\* Context::chain_fft_with_app: the Plan and the LaunchParams are moved into
\* the call
Context_chain_fft_with_app(id, p, fft_type, appendStatus) ==
  ChainedWithApp(id,
                 IF fft_type = "Forward"
                 THEN App_forward(apps[id], id, p, appendStatus)
                 ELSE App_inverse(apps[id], id, p, appendStatus),
                 App_drop(apps[id], id))

\* the descriptor submit builds for command stream cb: a SubmitInfo2 with one
\* CommandBufferSubmitInfo when synchronization2 is enabled (built before the
\* version test), else a SubmitInfo with one command buffer
SubmitDescriptor(dev, cb) ==
  IF dev.synchronization2
  THEN [type |-> "SubmitInfo2", command_buffers |-> << cb >>]
  ELSE [type |-> "SubmitInfo", command_buffers |-> << cb >>]

\* the queue-submission call of Context::submit for command stream cb: the
\* Context's queue, one descriptor, the Context's fence
QueueSubmit(cb, status) ==
  [op |-> SubmitEntryPoint(device), app |-> 0, dir |-> 0, cb |-> cb,
   status |-> status, queue |-> "ctx_queue",
   submits |-> << SubmitDescriptor(device, cb) >>, fence |-> "ctx_fence"]

(***************************************************************************)
(* Spec: one thread drives a Context through single_fft, start_fft_chain,  *)
(* chain_fft_with_app, chain_fft_with_config and submit, finalizes the     *)
(* command streams it was handed and lets go of the Plans it owns; the GPU *)
(* completes submitted work and signals the fence.                         *)
(***************************************************************************)
idleVars == <<builder, config, buildResult, newResult, lpb, params, lpResult,
              launchResult, device, refs, queue_state>>

\* AutoCommandBufferBuilder::build: the command stream is finalized
Finalize(cb) == Event("build", 0, 0, cb, 0)
WaitForFences == Event("wait_for_fences", 0, 0, 0, 0)
ResetFences == Event("reset_fences", 0, 0, 0, 0)

Init ==
  /\ pc = "idle"
  /\ builder = None /\ config = None
  /\ buildResult = "NotCalled" /\ newResult = "NotCalled"
  /\ lpb = None /\ params = None
  /\ lpResult = "NotCalled" /\ launchResult = "NotCalled"
  /\ apps = <<>> /\ log = <<>>
  /\ fence = "unsignaled" /\ inflight = {} /\ streams = <<>>
  /\ held = EmptyHeld /\ frame = None /\ opResult = "NotCalled"
  /\ device = [synchronization2 |-> FALSE, api_version |-> V1_3]
  /\ refs = NoRefs
  /\ queue_state = None

\* the thread is between two calls and has logged fewer than n calls
Idle(n) ==
  /\ pc = "idle"
  /\ Len(log) < n

CanCall == Idle(MaxEvents)

CanAllocate ==
  /\ Len(apps) < MaxApps
  /\ Len(streams) < MaxStreams

\* the caller's state when start_fft_chain returned r: on Ok it owns the new
\* Plan, its LaunchParams and the open command stream
StartReturns(r) ==
  /\ apps' = r.apps
  /\ streams' = r.streams
  /\ log' = log \o r.events
  /\ opResult' = r.res
  /\ held' = IF r.res = "Ok"
             THEN [held EXCEPT !.apps = @ \cup {Len(apps) + 1},
                               !.params = @ \cup r.params,
                               !.builders = @ \cup {Len(streams) + 1}]
             ELSE held

\* context.start_fft_chain(config_builder, fft_type)
Step_start_fft_chain(n) ==
  /\ Idle(n) /\ CanAllocate
  /\ \E b \in CallerBuilders, t \in FftTypes, allocOk \in BOOLEAN,
        i \in EngineStatuses, a \in EngineStatuses :
       StartReturns(Context_start_fft_chain(b, t, allocOk, i, a))
  /\ UNCHANGED <<pc, fence, inflight, frame, idleVars>>

\* the Plan `owned` (if any) is dropped when `drops` holds
DropOwned(owned, drops, apps0) ==
  IF drops /\ IsSome(owned)
  THEN [app |-> Some(App_drop(apps0[Unwrap(owned)], Unwrap(owned)).app),
        events |-> App_drop(apps0[Unwrap(owned)], Unwrap(owned)).events]
  ELSE [app |-> None, events |-> <<>>]

\* the apps once the Plan `owned` (if any) went through drop d
AfterDrop(owned, d, apps0) ==
  IF IsSome(d.app) THEN [apps0 EXCEPT ![Unwrap(owned)] = Unwrap(d.app)] ELSE apps0

\* the running operation: the call made (`call.op`, with the direction
\* `call.fft_type` a single_fft was asked for), the Plan its frame owns (if
\* any) and the command stream it submits
Frame(call, owned, cb) ==
  [op |-> call.op, fft_type |-> call.fft_type, app |-> owned, cb |-> cb]

\* a panic in submit or single_fft: it unwinds, dropping the frame's locals
\* (d: the drop of the Plan a single_fft frame owns), or aborts the process
Panic(call, owned, cb, unwind, d, apps0, log0) ==
  /\ log' = log0 \o d.events
  /\ apps' = AfterDrop(owned, d, apps0)
  /\ pc' = IF unwind THEN "panicked" ELSE "aborted"
  /\ frame' = IF unwind THEN None ELSE Some(Frame(call, owned, cb))
  /\ opResult' = "panic"

\* submit handing a non-success queue-submission result back as an error
SubmitUntilWait_returns_err(call, owned, cb, q, unwind, apps0, streams0, log0) ==
  IF q # VK_SUCCESS
  THEN /\ log' = Append(log0, QueueSubmit(cb, q)) \o DropOwned(owned, TRUE, apps0).events
       /\ apps' = AfterDrop(owned, DropOwned(owned, TRUE, apps0), apps0)
       /\ streams' = [streams0 EXCEPT ![cb] = "dropped"]
       /\ pc' = "idle"
       /\ frame' = None
       /\ opResult' = "VulkanError"
       /\ UNCHANGED <<fence, inflight>>
  ELSE /\ log' = Append(log0, QueueSubmit(cb, q))
       /\ apps' = apps0
       /\ streams' = [streams0 EXCEPT ![cb] = "pending"]
       /\ inflight' = inflight \cup {cb}
       /\ pc' = "waiting"
       /\ frame' = Some(Frame(call, owned, cb))
       /\ opResult' = "InProgress"
       /\ UNCHANGED fence

\* the part of Context::submit before the fence wait, for command stream cb
\* moved into the call, `owned` being the Plan the calling frame owns (if
\* any): the queue submission returns q, and a non-success q panics
SubmitUntilWait(call, owned, cb, q, unwind, apps0, streams0, log0) ==
  IF q # VK_SUCCESS
  THEN /\ Panic(call, owned, cb, unwind, DropOwned(owned, unwind, apps0), apps0,
                Append(log0, QueueSubmit(cb, q)))
       /\ streams' = [streams0 EXCEPT ![cb] = IF unwind THEN "dropped" ELSE "executable"]
       /\ UNCHANGED <<fence, inflight>>
  ELSE /\ log' = Append(log0, QueueSubmit(cb, q))
       /\ apps' = apps0
       /\ streams' = [streams0 EXCEPT ![cb] = "pending"]
       /\ inflight' = inflight \cup {cb}
       /\ pc' = "waiting"
       /\ frame' = Some(Frame(call, owned, cb))
       /\ opResult' = "InProgress"
       /\ UNCHANGED fence

\* single_fft after its start_fft_chain returned r with Plan id on command
\* stream s: `?` returns r's error; a failing builder.build() drops the Plan
\* (d) and returns the error; otherwise the stream is finalized and submitted
SingleFftAfterStart(r, t, id, s, d, buildOk, q, unwind) ==
  IF r.res # "Ok"
  THEN /\ apps' = r.apps
       /\ streams' = r.streams
       /\ log' = log \o r.events
       /\ opResult' = r.res
       /\ UNCHANGED <<pc, fence, inflight, frame>>
  ELSE IF ~buildOk
  THEN /\ apps' = AfterDrop(Some(id), d, r.apps)
       /\ streams' = [r.streams EXCEPT ![s] = "dropped"]
       /\ log' = log \o r.events \o d.events
       /\ opResult' = "VulkanError"
       /\ UNCHANGED <<pc, fence, inflight, frame>>
  ELSE SubmitUntilWait([op |-> "single_fft", fft_type |-> t], Some(id), s, q, unwind,
                       r.apps, r.streams, log \o r.events \o << Finalize(s) >>)

\* single_fft's start_fft_chain returned r
SingleFftStarted(r, t, id, s, buildOk, q, unwind) ==
  SingleFftAfterStart(r, t, id, s, DropOwned(Some(id), r.res = "Ok", r.apps),
                      buildOk, q, unwind)

\* context.single_fft(config_builder, fft_type), up to the fence wait
Step_single_fft(n) ==
  /\ Idle(n) /\ CanAllocate
  /\ \E b \in CallerBuilders, t \in FftTypes, allocOk \in BOOLEAN,
        i \in EngineStatuses, a \in EngineStatuses, buildOk \in BOOLEAN,
        q \in SubmitResults, unwind \in BOOLEAN :
       SingleFftStarted(Context_start_fft_chain(b, t, allocOk, i, a), t,
                        Len(apps) + 1, Len(streams) + 1, buildOk, q, unwind)
  /\ UNCHANGED <<held, idleVars>>

\* context.submit(command_buffer), up to the fence wait
Step_submit(n) ==
  /\ Idle(n)
  /\ \E cb \in held.cbs, q \in SubmitResults, unwind \in BOOLEAN :
       /\ held' = [held EXCEPT !.cbs = @ \ {cb}]
       /\ SubmitUntilWait([op |-> "submit", fft_type |-> "none"], None, cb, q, unwind,
                          apps, streams, log)
  /\ UNCHANGED idleVars

\* the GPU completes a submission and signals the fence it was given
Gpu_complete ==
  /\ \E cb \in inflight :
       /\ inflight' = inflight \ {cb}
       /\ streams' = [streams EXCEPT ![cb] = "completed"]
  /\ fence' = "signaled"
  /\ UNCHANGED <<pc, apps, log, held, frame, opResult, idleVars>>

\* single_fft dropping its Plan before submit waits on the fence
AfterWait_drop_first(f, resetOk, unwind, d) ==
  IF resetOk
  THEN /\ log' = log \o d.events \o << WaitForFences, ResetFences >>
       /\ apps' = AfterDrop(f.app, d, apps)
       /\ fence' = "unsignaled"
       /\ pc' = "idle"
       /\ frame' = None
       /\ opResult' = "Ok"
  ELSE /\ Panic(f, f.app, f.cb, unwind, d, apps,
                log \o << WaitForFences, ResetFences >>)
       /\ UNCHANGED fence

\* submit returning after the wait without resetting the fence
AfterWait_no_reset(f, resetOk, unwind, d) ==
  IF resetOk
  THEN /\ log' = log \o << WaitForFences >> \o d.events
       /\ apps' = AfterDrop(f.app, d, apps)
       /\ fence' = fence
       /\ pc' = "idle"
       /\ frame' = None
       /\ opResult' = "Ok"
  ELSE /\ Panic(f, f.app, f.cb, unwind, d, apps,
                log \o << WaitForFences, ResetFences >>)
       /\ UNCHANGED fence

\* submit after fence.wait(None) returned Ok, in frame f: the fence is reset
\* and submit returns Ok, upon which single_fft drops its Plan (d) and returns
\* Ok.  A failing reset panics in unwrap().
AfterWait(f, resetOk, unwind, d) ==
  IF resetOk
  THEN /\ log' = log \o << WaitForFences, ResetFences >> \o d.events
       /\ apps' = AfterDrop(f.app, d, apps)
       /\ fence' = "unsignaled"
       /\ pc' = "idle"
       /\ frame' = None
       /\ opResult' = "Ok"
  ELSE /\ Panic(f, f.app, f.cb, unwind, d, apps,
                log \o << WaitForFences, ResetFences >>)
       /\ UNCHANGED fence

\* fence.wait giving up after a timeout, whatever the state of the fence
Submit_return_on_timeout ==
  /\ pc = "waiting"
  /\ \E resetOk \in BOOLEAN, unwind \in BOOLEAN :
       AfterWait(Unwrap(frame), resetOk, unwind,
                 DropOwned(Unwrap(frame).app, resetOk \/ unwind, apps))
  /\ UNCHANGED <<inflight, streams, held, idleVars>>

\* fence.wait(None) returns once the fence is signaled
Submit_return ==
  /\ pc = "waiting"
  /\ fence = "signaled"
  /\ \E resetOk \in BOOLEAN, unwind \in BOOLEAN :
       AfterWait(Unwrap(frame), resetOk, unwind,
                 DropOwned(Unwrap(frame).app, resetOk \/ unwind, apps))
  /\ UNCHANGED <<inflight, streams, held, idleVars>>

\* fence.wait(None) returns an error (the device is lost): unwrap() panics
Wait_fault ==
  /\ pc = "waiting"
  /\ \E unwind \in BOOLEAN :
       Panic(Unwrap(frame), Unwrap(frame).app, Unwrap(frame).cb, unwind,
             DropOwned(Unwrap(frame).app, unwind, apps), apps,
             Append(log, WaitForFences))
  /\ UNCHANGED <<fence, inflight, streams, held, idleVars>>

\* builder.build() by the caller on an open command stream it was handed
Step_build(n) ==
  /\ Idle(n)
  /\ \E s \in held.builders, buildOk \in BOOLEAN :
       /\ held' = [held EXCEPT !.builders = @ \ {s},
                               !.cbs = IF buildOk THEN @ \cup {s} ELSE @]
       /\ streams' = [streams EXCEPT ![s] = IF buildOk THEN "executable" ELSE "dropped"]
       /\ log' = IF buildOk THEN Append(log, Finalize(s)) ELSE log
  /\ UNCHANGED <<pc, apps, fence, inflight, frame, opResult, idleVars>>

\* chain_fft_with_app leaving the Plan and the parameters with the caller on
\* an error
ChainWithAppReturns_hands_back(r, id, p) ==
  /\ apps' = r.apps
  /\ log' = log \o r.events
  /\ opResult' = r.res
  /\ held' = held

\* the caller's state when chain_fft_with_app(id, p, ..) returned r: on an
\* error the Plan and the LaunchParams are gone
ChainWithAppReturns(r, id, p) ==
  /\ apps' = r.apps
  /\ log' = log \o r.events
  /\ opResult' = r.res
  /\ held' = IF r.res = "Ok" THEN held
             ELSE [held EXCEPT !.apps = @ \ {id}, !.params = @ \ {p}]

\* context.chain_fft_with_app(app, params, fft_type)
Step_chain_fft_with_app(n) ==
  /\ Idle(n)
  /\ \E id \in held.apps, p \in held.params, t \in FftTypes, a \in EngineStatuses :
       ChainWithAppReturns(Context_chain_fft_with_app(id, p, t, a), id, p)
  /\ UNCHANGED <<pc, fence, inflight, streams, frame, idleVars>>

\* the caller's state when chain_fft_with_config returned r for the stream s:
\* on Ok it owns the new Plan and its LaunchParams too
ChainWithConfigReturns(r, s) ==
  /\ apps' = r.apps
  /\ streams' = r.streams
  /\ log' = log \o r.events
  /\ opResult' = r.res
  /\ held' = IF r.res = "Ok"
             THEN [held EXCEPT !.apps = @ \cup {Len(apps) + 1},
                               !.params = @ \cup r.params]
             ELSE [held EXCEPT !.builders = @ \ {s}]

\* context.chain_fft_with_config(config_builder, builder, fft_type)
Step_chain_fft_with_config(n) ==
  /\ Idle(n)
  /\ Len(apps) < MaxApps
  /\ \E b \in CallerBuilders, s \in held.builders, t \in FftTypes,
        i \in EngineStatuses, a \in EngineStatuses :
       ChainWithConfigReturns(Context_chain_fft_with_config(b, s, t, i, a), s)
  /\ UNCHANGED <<pc, fence, inflight, frame, idleVars>>

\* the caller's state once the Plan id went through drop d
PlanDropped(id, d) ==
  /\ apps' = [apps EXCEPT ![id] = d.app]
  /\ log' = log \o d.events
  /\ held' = [held EXCEPT !.apps = @ \ {id}]

\* the caller lets go of a Plan it owns
Caller_drop_app ==
  /\ CanCall
  /\ \E id \in held.apps : PlanDropped(id, App_drop(apps[id], id))
  /\ UNCHANGED <<pc, fence, inflight, streams, frame, opResult, idleVars>>

\* params.buffer = Some(b2): LaunchParams' fields are public
Write_params_buffer ==
  /\ pc = "idle"
  /\ \E p \in held.params :
       /\ p.buffer = None
       /\ held' = [held EXCEPT !.params = (@ \ {p}) \cup {[p EXCEPT !.buffer = Some("b2")]}]
  /\ UNCHANGED <<pc, apps, log, fence, inflight, streams, frame, opResult, idleVars>>

Call_start_fft_chain == Step_start_fft_chain(MaxEvents)
Call_single_fft == Step_single_fft(MaxEvents)
Call_submit == Step_submit(MaxEvents)
Caller_build == Step_build(MaxEvents)
Call_chain_fft_with_app == Step_chain_fft_with_app(MaxEvents)
Call_chain_fft_with_config == Step_chain_fft_with_config(MaxEvents)

Next ==
  \/ Call_start_fft_chain
  \/ Call_single_fft
  \/ Call_submit
  \/ Gpu_complete
  \/ Submit_return
  \/ Wait_fault
  \/ Caller_build
  \/ Call_chain_fft_with_app
  \/ Call_chain_fft_with_config
  \/ Caller_drop_app
  \/ Write_params_buffer

Spec == Init /\ [][Next]_vars

(***************************************************************************)
(* SpecSubmit: the five Context operations without the caller's own drops  *)
(* and writes, far enough for one submission to follow another (chains are *)
(* extended early on only), on each of the three kinds of device           *)
(* submit distinguishes (the Context's fields are public: it may be        *)
(* assembled around a device with synchronization2 enabled).               *)
(***************************************************************************)
ContextDevices ==
  { [synchronization2 |-> FALSE, api_version |-> V1_3],
    [synchronization2 |-> TRUE, api_version |-> 12],
    [synchronization2 |-> TRUE, api_version |-> V1_3] }

InitSubmit ==
  /\ pc = "idle"
  /\ builder = None /\ config = None
  /\ buildResult = "NotCalled" /\ newResult = "NotCalled"
  /\ lpb = None /\ params = None
  /\ lpResult = "NotCalled" /\ launchResult = "NotCalled"
  /\ apps = <<>> /\ log = <<>>
  /\ fence = "unsignaled" /\ inflight = {} /\ streams = <<>>
  /\ held = EmptyHeld /\ frame = None /\ opResult = "NotCalled"
  /\ device \in ContextDevices
  /\ refs = NoRefs
  /\ queue_state = None

Seq_start_fft_chain == Step_start_fft_chain(MaxSubmitEvents)
Seq_single_fft == Step_single_fft(MaxSubmitEvents)
Seq_submit == Step_submit(MaxSubmitEvents)
Seq_build == Step_build(MaxSubmitEvents)
Seq_chain_fft_with_app == Step_chain_fft_with_app(MaxChainEvents)
Seq_chain_fft_with_config == Step_chain_fft_with_config(MaxChainEvents)

NextSubmit ==
  \/ Seq_start_fft_chain
  \/ Seq_single_fft
  \/ Seq_submit
  \/ Seq_build
  \/ Seq_chain_fft_with_app
  \/ Seq_chain_fft_with_config
  \/ Gpu_complete
  \/ Submit_return
  \/ Wait_fault

SpecSubmit == InitSubmit /\ [][NextSubmit]_vars

(***************************************************************************)
(* Claims checked under Spec                                               *)
(***************************************************************************)
\* positions in the log of the calls of entry point op on engine object id
CallsOn(id, op) == {i \in DOMAIN log : log[i].op = op /\ log[i].app = id}

\* the Plan id is owned: by the caller, or by the frame of a running single_fft
Owned(id) ==
  \/ id \in held.apps
  \/ IsSome(frame) /\ Unwrap(frame).app = Some(id)

\* C6: for every Plan whose engine object was created, deleteVkFFT is called
\* exactly once, when the Plan's owner releases it (never while it is owned,
\* never twice), whatever path led to the release; initializeVkFFT is called
\* once, before every other call, and no call is made on the engine object
\* after its deleteVkFFT.
C6_TeardownOnce ==
  \A id \in DOMAIN apps :
    /\ Cardinality(CallsOn(id, "initializeVkFFT")) = 1
    /\ Cardinality(CallsOn(id, "deleteVkFFT")) <= 1
    /\ Owned(id) <=> CallsOn(id, "deleteVkFFT") = {}
    /\ \A d \in CallsOn(id, "deleteVkFFT") :
         \A i \in DOMAIN log : log[i].app = id /\ i # d => i < d
    /\ \A n \in CallsOn(id, "initializeVkFFT") :
         \A i \in DOMAIN log : log[i].app = id /\ i # n => n < i

\* one Plan was torn down after a failed initialization, another after a
\* failed or refused launch that followed a successful one
C6_Witness ==
  \E a, b \in DOMAIN apps :
    /\ a # b
    /\ \E n \in CallsOn(a, "initializeVkFFT") : log[n].status # VKFFT_SUCCESS
    /\ CallsOn(a, "deleteVkFFT") # {}
    /\ \E l \in CallsOn(b, "VkFFTAppend") : log[l].status = VKFFT_SUCCESS
    /\ CallsOn(b, "deleteVkFFT") # {}
    /\ opResult \in {"VkFFTError", "ConfigSpecifiesBuffer"}

\* the calls logged by the step
NewCalls == IF Len(log') > Len(log) THEN (Len(log) + 1)..Len(log') ELSE {}

\* C7: when initializeVkFFT reports non-success, the operation returns the
\* typed engine error and hands out no Plan; the Plan is never Initialized,
\* no VkFFTAppend is ever called on its engine object, and initializeVkFFT is
\* not called on it again.
C7_InitFailure ==
  /\ [][\A i \in NewCalls :
          (log'[i].op = "initializeVkFFT" /\ log'[i].status # VKFFT_SUCCESS)
            => /\ opResult' = "VkFFTError"
               /\ held'.apps = held.apps
               /\ frame' = None]_vars
  /\ [](\A i \in DOMAIN log :
          (log[i].op = "initializeVkFFT" /\ log[i].status # VKFFT_SUCCESS)
            => /\ apps[log[i].app].state # "Initialized"
               /\ ~Owned(log[i].app)
               /\ CallsOn(log[i].app, "VkFFTAppend") = {}
               /\ CallsOn(log[i].app, "initializeVkFFT") = {i})

\* an initialization failed, and the thread went on to launch another Plan
C7_Witness ==
  \E i \in DOMAIN log :
    /\ log[i].op = "initializeVkFFT" /\ log[i].status # VKFFT_SUCCESS
    /\ \E j \in DOMAIN log : j > i /\ log[j].op = "VkFFTAppend"

(***************************************************************************)
(* Claims checked under SpecSubmit                                         *)
(***************************************************************************)
SubmitOps == {"queue_submit", "queue_submit2", "queue_submit2_khr"}
Submissions == {i \in DOMAIN log : log[i].op \in SubmitOps}

\* C9: at most one submission is in flight against the Context's fence; each
\* queue submission is made with the fence unsignaled and nothing in flight;
\* when submit returns, the fence was waited on and then reset, it is
\* unsignaled and nothing is in flight; between two submissions lie a wait
\* and a reset.
C9_OneInFlight ==
  /\ [](Cardinality(inflight) <= 1)
  /\ [][(\E i \in NewCalls : log'[i].op \in SubmitOps)
          => (fence = "unsignaled" /\ inflight = {})]_vars
  /\ [][(pc = "waiting" /\ pc' = "idle")
          => /\ fence' = "unsignaled"
             /\ inflight' = {}
             /\ Len(log') >= Len(log) + 2
             /\ log'[Len(log) + 1].op = "wait_for_fences"
             /\ log'[Len(log) + 2].op = "reset_fences"]_vars
  /\ [](\A i, j \in Submissions :
          i < j => \E w, r \in DOMAIN log :
                     /\ i < w /\ w < r /\ r < j
                     /\ log[w].op = "wait_for_fences"
                     /\ log[r].op = "reset_fences")

\* a second submission has returned
C9_Witness ==
  /\ pc = "idle"
  /\ opResult = "Ok"
  /\ \E i, j \in Submissions :
       i < j /\ log[i].status = VK_SUCCESS /\ log[j].status = VK_SUCCESS

\* C10: a non-success result of the queue-submission call, whichever of the
\* three entry points made it, ends in a panic: the fence is neither waited
\* on nor reset afterwards, and the result never comes back as an error
\* value; submit returns only Ok, and only after the wait and the reset.
C10_SubmitFailureFatal ==
  /\ [](\A i \in Submissions :
          /\ log[i].op = SubmitEntryPoint(device)
          /\ log[i].status # VK_SUCCESS
               => /\ pc \in {"panicked", "aborted"}
                  /\ opResult = "panic"
                  /\ \A j \in DOMAIN log :
                       j > i => log[j].op \notin {"wait_for_fences", "reset_fences"} \cup SubmitOps)
  /\ []((IsSome(frame) /\ Unwrap(frame).op = "submit")
          => opResult \in {"InProgress", "panic"})
  /\ [][(IsSome(frame) /\ frame' = None /\ pc' = "idle")
          => /\ opResult' = "Ok"
             /\ log[Len(log)].status = VK_SUCCESS
             /\ log'[Len(log) + 1].op = "wait_for_fences"
             /\ log'[Len(log) + 2].op = "reset_fences"]_vars

\* the KHR entry point reported a failure after an earlier submission returned
C10_Witness ==
  \E i, j \in Submissions :
    /\ i < j
    /\ log[j].op = "queue_submit2_khr"
    /\ log[j].status # VK_SUCCESS
    /\ pc = "panicked"

\* the direction the engine is given for a requested transform (app.rs 242)
Direction(fft_type) == IF fft_type = "Forward" THEN -1 ELSE 1

\* the Native Configuration Projections the Context operations can build:
\* one per Transform Description a caller may hand in
Projections ==
  { Unwrap(Config_as_sys(Unwrap(ConfigBuilder_build(WithContextHandles(b)).config)).guard) :
      b \in CallerBuilders }

\* C11: a successful single_fft makes, in this order and once each: the
\* projection of the configuration (embedded in the new Plan), initializeVkFFT,
\* one VkFFTAppend in the requested direction on the new command stream, the
\* finalization of that stream, one queue submission of it, the fence wait,
\* the fence reset, and then deleteVkFFT.  While it waits the Plan is intact,
\* and when it returns the Plan is destroyed and the caller holds nothing new.
C11_SingleFftOrder ==
  /\ [][(pc = "idle" /\ pc' = "waiting" /\ Unwrap(frame').op = "single_fft")
          => LET id == Len(apps) + 1
                 s == Len(streams) + 1
             IN /\ Unwrap(frame').app = {id}
                /\ Unwrap(frame').cb = s
                /\ Len(apps') = id
                /\ apps'[id].state = "Initialized"
                /\ apps'[id].config \in Projections
                /\ log' = log \o
                     << Event("initializeVkFFT", id, 0, 0, VKFFT_SUCCESS),
                        Event("VkFFTAppend", id, Direction(Unwrap(frame').fft_type), s,
                              VKFFT_SUCCESS),
                        Event("build", 0, 0, s, 0),
                        QueueSubmit(s, VK_SUCCESS) >>]_vars
  /\ [][(pc = "waiting" /\ pc' = "idle" /\ Unwrap(frame).op = "single_fft")
          => \E id \in Unwrap(frame).app :
               /\ log' = log \o << Event("wait_for_fences", 0, 0, 0, 0),
                                   Event("reset_fences", 0, 0, 0, 0),
                                   Event("deleteVkFFT", id, 0, 0, 0) >>
               /\ apps'[id].state = "Destroyed"
               /\ opResult' = "Ok"
               /\ frame' = None
               /\ held' = held]_vars
  /\ []((pc = "waiting" /\ Unwrap(frame).op = "single_fft")
          => \E id \in Unwrap(frame).app :
               /\ apps[id].state = "Initialized"
               /\ CallsOn(id, "deleteVkFFT") = {}
               /\ id \notin held.apps)

\* an inverse single_fft has returned Ok
C11_Witness ==
  /\ pc = "idle"
  /\ opResult = "Ok"
  /\ Len(log) >= 7
  /\ log[Len(log)].op = "deleteVkFFT"
  /\ log[Len(log) - 1].op = "reset_fences"
  /\ log[Len(log) - 5].op = "VkFFTAppend"
  /\ log[Len(log) - 5].dir = 1

\* the calls logged by the step, in order
NewLog == SubSeq(log', Len(log) + 1, Len(log'))

\* what a chain_fft_with_app step leaves alone: no Plan is made, no other
\* Plan is touched, the Plan's projection stays as it is, no command stream
\* is made, finalized or submitted, and the fence is not touched
ChainWithAppFrame(id) ==
  /\ Len(apps') = Len(apps)
  /\ \A j \in DOMAIN apps : j # id => apps'[j] = apps[j]
  /\ apps'[id].config = apps[id].config
  /\ streams' = streams
  /\ fence' = fence /\ inflight' = inflight
  /\ pc' = pc /\ frame' = frame
  /\ held'.builders = held.builders /\ held'.cbs = held.cbs

\* C12 as claimed: every chain_fft_with_app makes exactly one VkFFTAppend, on
\* the Plan passed in and with the command stream of the launch parameters
\* passed in, and no initialization, submission or fence call.
C12_Original ==
  [][Call_chain_fft_with_app
       => \E id \in held.apps, p \in held.params :
            /\ ChainWithAppFrame(id)
            /\ Cardinality({i \in DOMAIN NewLog : NewLog[i].op = "VkFFTAppend"}) = 1
            /\ \A i \in DOMAIN NewLog :
                 /\ NewLog[i].op \in {"VkFFTAppend", "deleteVkFFT"}
                 /\ NewLog[i].app = id
                 /\ NewLog[i].op = "VkFFTAppend" => NewLog[i].cb = p.command_buffer]_vars

\* C12, amended: chain_fft_with_app makes no initializeVkFFT, projection,
\* stream, submission or fence call.  On success it has made exactly one
\* VkFFTAppend on the Plan passed in with the command stream of the launch
\* parameters passed in, and the caller has the same Plan and parameters
\* back, unchanged.  On an append failure it has made that one VkFFTAppend,
\* on a role conflict none; in both cases the Plan, which the call owns, is
\* torn down (one deleteVkFFT) and the caller gets neither back.
C12_ChainWithApp ==
  [][Call_chain_fft_with_app
       => \E id \in held.apps, p \in held.params :
            /\ ChainWithAppFrame(id)
            /\ CASE opResult' = "Ok" ->
                      /\ NewLog = << Event("VkFFTAppend", id, NewLog[1].dir,
                                           p.command_buffer, VKFFT_SUCCESS) >>
                      /\ NewLog[1].dir \in {-1, 1}
                      /\ apps' = apps
                      /\ held' = held
                 [] opResult' = "VkFFTError" ->
                      /\ Len(NewLog) = 2
                      /\ NewLog[1].op = "VkFFTAppend" /\ NewLog[1].app = id
                      /\ NewLog[1].cb = p.command_buffer
                      /\ NewLog[1].status # VKFFT_SUCCESS
                      /\ NewLog[2] = Event("deleteVkFFT", id, 0, 0, 0)
                      /\ apps'[id].state = "Destroyed"
                      /\ held'.apps = held.apps \ {id}
                      /\ held'.params = held.params \ {p}
                 [] OTHER ->
                      /\ opResult' \in {"ConfigSpecifiesBuffer", "ConfigSpecifiesTempBuffer",
                                        "ConfigSpecifiesInputBuffer",
                                        "ConfigSpecifiesOutputBuffer"}
                      /\ NewLog = << Event("deleteVkFFT", id, 0, 0, 0) >>
                      /\ apps'[id].state = "Destroyed"
                      /\ held'.apps = held.apps \ {id}
                      /\ held'.params = held.params \ {p}]_vars

\* a Plan got a second launch through chain_fft_with_app and is still the
\* caller's
C12_Witness ==
  /\ opResult = "Ok"
  /\ \E id \in held.apps :
       \E i, j \in CallsOn(id, "VkFFTAppend") :
         i < j /\ log[i].status = VKFFT_SUCCESS /\ log[j].status = VKFFT_SUCCESS

\* C13 as claimed: the Plan chain_fft_with_config makes is torn down by the
\* time the call is over and is not the caller's afterwards.
C13_Original ==
  [][Seq_chain_fft_with_config
       => (Len(apps') > Len(apps)
             => /\ apps'[Len(apps')].state = "Destroyed"
                /\ Len(apps') \notin held'.apps)]_vars

\* C13, amended: chain_fft_with_config makes a new Plan from the Transform
\* Description and the Context's handles and launches it once on the open
\* command stream it was given.  On success the new Plan is Initialized and
\* handed to the caller together with its launch parameters and the stream,
\* which stays open; it is torn down only when the caller lets go of it.  On
\* an engine error the Plan is torn down inside the call and the stream is
\* dropped.  The Plans made earlier, the fence and the queue are not touched.
C13_ChainWithConfig ==
  [][Seq_chain_fft_with_config
       => \E s \in held.builders :
            LET id == Len(apps) + 1 IN
            /\ Len(apps') = id
            /\ \A j \in DOMAIN apps : apps'[j] = apps[j]
            /\ apps'[id].config \in Projections
            /\ fence' = fence /\ inflight' = inflight
            /\ pc' = pc /\ frame' = frame
            /\ held'.cbs = held.cbs
            /\ NewLog[1].op = "initializeVkFFT" /\ NewLog[1].app = id
            /\ IF opResult' = "Ok"
               THEN /\ NewLog = << Event("initializeVkFFT", id, 0, 0, VKFFT_SUCCESS),
                                   Event("VkFFTAppend", id, NewLog[2].dir, s, VKFFT_SUCCESS) >>
                    /\ NewLog[2].dir \in {-1, 1}
                    /\ apps'[id].state = "Initialized"
                    /\ streams' = streams
                    /\ held'.apps = held.apps \cup {id}
                    /\ held'.builders = held.builders
                    /\ \E p \in held'.params : p.command_buffer = s
               ELSE /\ opResult' = "VkFFTError"
                    /\ NewLog[Len(NewLog)] = Event("deleteVkFFT", id, 0, 0, 0)
                    /\ \A i \in 1..(Len(NewLog) - 1) :
                         /\ NewLog[i].op \in {"initializeVkFFT", "VkFFTAppend"}
                         /\ NewLog[i].app = id
                    /\ NewLog[Len(NewLog) - 1].status # VKFFT_SUCCESS
                    /\ apps'[id].state = "Destroyed"
                    /\ streams' = [streams EXCEPT ![s] = "dropped"]
                    /\ held'.apps = held.apps
                    /\ held'.builders = held.builders \ {s}]_vars

\* a command stream is in flight on the GPU that two Plans were launched on,
\* the second made by chain_fft_with_config, and both Plans are alive and the
\* caller's
C13_Witness ==
  /\ pc = "waiting"
  /\ \E a, b \in held.apps :
       /\ a < b
       /\ apps[a].state = "Initialized" /\ apps[b].state = "Initialized"
       /\ \E i \in CallsOn(a, "VkFFTAppend"), j \in CallsOn(b, "VkFFTAppend") :
            /\ log[i].cb = Unwrap(frame).cb
            /\ log[j].cb = Unwrap(frame).cb
       /\ Unwrap(frame).cb \in inflight

(***************************************************************************)
(* SpecChain: a caller takes a list of directions through one chain        *)
(* (start_fft_chain, chain_fft_with_app for the rest, build, submit) and   *)
(* then through one single_fft per direction, on the same Context and with *)
(* the same Transform Description; the engine reports success.             *)
(***************************************************************************)
\* the longest list of directions
MaxChain == 3

DirectionLists ==
  UNION { [1..n -> FftTypes] : n \in 1..MaxChain }

InitChain ==
  /\ pc = "idle"
  /\ builder \in { Some(b) : b \in CallerBuilders }
  /\ config = None
  /\ buildResult = "NotCalled" /\ newResult = "NotCalled"
  /\ lpb = None /\ params = None
  /\ lpResult = "NotCalled" /\ launchResult = "NotCalled"
  /\ apps = <<>> /\ log = <<>>
  /\ fence = "unsignaled" /\ inflight = {} /\ streams = <<>>
  /\ \E d \in DirectionLists :
       held = [apps |-> {}, params |-> {}, builders |-> {}, cbs |-> {}, dirs |-> d]
  /\ frame = None /\ opResult = "NotCalled"
  /\ device = [synchronization2 |-> FALSE, api_version |-> V1_3]
  /\ refs = NoRefs
  /\ queue_state = None

\* the launches made so far, and the submissions
Launched == Cardinality({i \in DOMAIN log : log[i].op = "VkFFTAppend"})
Submitted == Cardinality({i \in DOMAIN log : log[i].op = SubmitEntryPoint(device)})

\* tests.rs 118: the chain starts with the first direction
Chain_start ==
  /\ pc = "idle" /\ apps = <<>>
  /\ StartReturns(Context_start_fft_chain(Unwrap(builder), held.dirs[1], TRUE,
                                          VKFFT_SUCCESS, VKFFT_SUCCESS))
  /\ UNCHANGED <<pc, fence, inflight, frame, idleVars>>

\* tests.rs 120-121: the next direction is launched on the same Plan
Chain_next ==
  /\ pc = "idle" /\ Submitted = 0
  /\ held.builders # {}
  /\ Launched < Len(held.dirs)
  /\ \E id \in held.apps, p \in held.params :
       ChainWithAppReturns(
         Context_chain_fft_with_app(id, p, held.dirs[Launched + 1], VKFFT_SUCCESS), id, p)
  /\ UNCHANGED <<pc, fence, inflight, streams, frame, idleVars>>

\* tests.rs 128: builder.build() once every direction is launched
Chain_build ==
  /\ Launched = Len(held.dirs)
  /\ Step_build(Len(log) + 1)

\* tests.rs 128: context.submit of the finalized stream
Chain_submit ==
  /\ Submitted = 0
  /\ Step_submit(Len(log) + 1)

\* then one single_fft per direction, in the same order
Chain_single_fft ==
  /\ pc = "idle" /\ Submitted >= 1
  /\ Launched < 2 * Len(held.dirs)
  /\ \E q \in SubmitResults, unwind \in BOOLEAN :
       SingleFftStarted(
         Context_start_fft_chain(Unwrap(builder), held.dirs[Launched - Len(held.dirs) + 1],
                                 TRUE, VKFFT_SUCCESS, VKFFT_SUCCESS),
         held.dirs[Launched - Len(held.dirs) + 1],
         Len(apps) + 1, Len(streams) + 1, TRUE, q, unwind)
  /\ UNCHANGED <<held, idleVars>>

NextChain ==
  \/ Chain_start
  \/ Chain_next
  \/ Chain_build
  \/ Chain_submit
  \/ Chain_single_fft
  \/ Gpu_complete
  \/ Submit_return

SpecChain == InitChain /\ [][NextChain]_vars

(***************************************************************************)
(* Claims checked under SpecChain                                          *)
(***************************************************************************)
\* the engine invocations recorded on command stream cb by the first n calls
RECURSIVE Recorded(_, _)
Recorded(cb, n) ==
  IF n = 0 THEN <<>>
  ELSE Recorded(cb, n - 1) \o
       (IF log[n].op = "VkFFTAppend" /\ log[n].cb = cb /\ log[n].status = VKFFT_SUCCESS
        THEN << [config |-> apps[log[n].app].config, dir |-> log[n].dir] >>
        ELSE <<>>)

\* the engine invocations the GPU is handed by the submissions among the
\* calls lo..hi, in the order it is handed them
RECURSIVE Handed(_, _)
Handed(lo, hi) ==
  IF hi < lo THEN <<>>
  ELSE Handed(lo, hi - 1) \o
       (IF log[hi].op \in SubmitOps /\ log[hi].status = VK_SUCCESS
        THEN Recorded(log[hi].cb, hi)
        ELSE <<>>)

\* the calls of entry points ops among the calls lo..hi
CountCalls(ops, lo, hi) ==
  Cardinality({i \in lo..hi : i \in DOMAIN log /\ log[i].op \in ops})

\* both runs are over
BothRunsDone ==
  /\ pc = "idle"
  /\ Launched = 2 * Len(held.dirs)
  /\ Submitted = Len(held.dirs) + 1

\* C14: once the chain and the single_fft calls for the same directions have
\* run, the chain's one submission has handed the GPU the same invocations
\* (same projection, same direction, same order) as the single_fft
\* submissions together, namely one per direction in the order asked for; the
\* chain made one initializeVkFFT and one submission, the single_fft calls one
\* of each per direction.
C14_ChainEquivalence ==
  BothRunsDone =>
    LET first == CHOOSE i \in Submissions : \A j \in Submissions : i <= j
        n == Len(held.dirs)
    IN /\ Handed(1, first) = Handed(first + 1, Len(log))
       /\ Handed(1, first) =
            [k \in 1..n |->
               [config |-> Unwrap(Config_as_sys(Unwrap(
                             ConfigBuilder_build(WithContextHandles(Unwrap(builder))).config)).guard),
                dir |-> Direction(held.dirs[k])]]
       /\ CountCalls({"initializeVkFFT"}, 1, first) = 1
       /\ CountCalls({"initializeVkFFT"}, first + 1, Len(log)) = n
       /\ CountCalls(SubmitOps, 1, first) = 1
       /\ CountCalls(SubmitOps, first + 1, Len(log)) = n

\* both runs are over for three directions that are not all the same
C14_Witness ==
  /\ BothRunsDone
  /\ Len(held.dirs) = 3
  /\ held.dirs[2] # held.dirs[3]
  /\ IsSome(Unwrap(builder).buffer)

(***************************************************************************)
(* SpecKeep: who keeps the Vulkan objects alive.  The caller starts with   *)
(* one handle to each object (an Arc, or the Fence itself), builds         *)
(* Configs from them, hands a Config to App::new, and drops its handles    *)
(* and its Plans in any order.  refs[r] counts the strong references to r; *)
(* the object is destroyed when the count reaches 0.                       *)
(***************************************************************************)
KeepResources ==
  {"ctx_physical", "ctx_device", "ctx_queue", "ctx_pool", "ctx_fence", "b1", "b2"}

\* the Transform Descriptions the caller builds Configs from
KeepBuilders ==
  { WithContextHandles(ConfigBuilder_new),
    WithContextHandles(ConfigBuilder_buffer(ConfigBuilder_new, "b1")),
    WithContextHandles(ConfigBuilder_kernel(
      ConfigBuilder_buffer(ConfigBuilder_new, "b1"), "b2")),
    WithContextHandles(ConfigBuilder_temp_buffer(
      ConfigBuilder_buffer(ConfigBuilder_new, "b1"), "b1")) }

\* the number of entries of a list of optional Arcs that refer to r
CountArcs(arcs, r) == Cardinality({i \in DOMAIN arcs : arcs[i] = Some(r)})

\* the Arc fields of a Config; the fence is a borrowed &Fence, not an Arc
ConfigArcs(c) ==
  << Some(c.physical_device), Some(c.device), Some(c.queue), Some(c.command_pool),
     c.buffer, c.input_buffer, c.output_buffer, c.temp_buffer, c.kernel >>

\* the Arc fields of a KeepAlive
KeepAliveArcs(k) ==
  << Some(k.device), Some(k.queue), Some(k.command_pool),
     k.buffer, k.input_buffer, k.output_buffer, k.temp_buffer, k.kernel >>

\* every object a Config refers to, the borrowed fence included
ConfigHandles(c) ==
  {c.physical_device, c.device, c.queue, c.command_pool, c.fence}
    \cup c.buffer \cup c.input_buffer \cup c.output_buffer \cup c.temp_buffer
    \cup c.kernel

InitKeep ==
  /\ pc = "keeping"
  /\ builder = None /\ config = None
  /\ buildResult = "NotCalled" /\ newResult = "NotCalled"
  /\ lpb = None /\ params = None
  /\ lpResult = "NotCalled" /\ launchResult = "NotCalled"
  /\ apps = <<>> /\ log = <<>>
  /\ fence = "unsignaled" /\ inflight = {} /\ streams = <<>>
  /\ held = [apps |-> {}, params |-> {}, builders |-> {}, cbs |-> {},
             handles |-> KeepResources]
  /\ frame = None /\ opResult = "NotCalled"
  /\ device = [synchronization2 |-> FALSE, api_version |-> V1_3]
  /\ refs = [r \in KeepResources |-> 1]
  /\ queue_state = None

keepVars == <<pc, builder, lpb, params, lpResult, launchResult, fence, inflight,
              streams, frame, opResult, device, queue_state>>

\* ConfigBuilder::build from handles the caller still has: each Arc handed
\* to a setter is a clone, the fence is borrowed
Keep_build ==
  /\ pc = "keeping"
  /\ config = None
  /\ Len(apps) < MaxApps
  /\ \E b \in KeepBuilders :
       LET r == ConfigBuilder_build(b) IN
         /\ ConfigHandles(Unwrap(r.config)) \subseteq held.handles
         /\ buildResult' = r.res
         /\ config' = r.config
         /\ refs' = [x \in KeepResources |->
                       refs[x] + CountArcs(ConfigArcs(Unwrap(r.config)), x)]
  /\ UNCHANGED <<newResult, apps, log, held, keepVars>>

\* App::new(config): as_sys clones the KeepAlive entries into the guard; the
\* Config, moved into the call, is dropped when the call returns, and so is
\* the guard when no Plan is returned
Keep_App_new ==
  /\ pc = "keeping"
  /\ IsSome(config)
  /\ \E status \in EngineStatuses :
       LET c == Unwrap(config)
           r == App_new(c, Len(apps) + 1, status)
       IN
         /\ newResult' = r.res
         /\ apps' = IF IsSome(r.app) THEN Append(apps, Unwrap(r.app)) ELSE apps
         /\ log' = log \o r.events
         /\ refs' = [x \in KeepResources |->
                       refs[x] - CountArcs(ConfigArcs(c), x)
                         + (IF r.res = "Ok"
                            THEN CountArcs(KeepAliveArcs(Unwrap(r.app).config.keep_alive), x)
                            ELSE 0)]
  /\ config' = None
  /\ UNCHANGED <<buildResult, held, keepVars>>

\* the caller drops a Config it never handed to App::new
Keep_drop_config ==
  /\ pc = "keeping"
  /\ IsSome(config)
  /\ refs' = [x \in KeepResources |->
                refs[x] - CountArcs(ConfigArcs(Unwrap(config)), x)]
  /\ config' = None
  /\ UNCHANGED <<buildResult, newResult, apps, log, held, keepVars>>

\* the caller drops one of its own handles; the fence cannot be dropped while
\* a Config borrows it
Keep_drop_handle ==
  /\ pc = "keeping"
  /\ \E r \in held.handles :
       /\ IsSome(config) => Unwrap(config).fence # r
       /\ held' = [held EXCEPT !.handles = @ \ {r}]
       /\ refs' = [refs EXCEPT ![r] = @ - 1]
  /\ UNCHANGED <<config, buildResult, newResult, apps, log, keepVars>>

\* a Plan is dropped: deleteVkFFT, then the guard and its KeepAlive
Keep_drop_app ==
  /\ pc = "keeping"
  /\ \E id \in DOMAIN apps :
       /\ apps[id].state = "Initialized"
       /\ LET d == App_drop(apps[id], id) IN
            /\ apps' = [apps EXCEPT ![id] = d.app]
            /\ log' = log \o d.events
       /\ refs' = [x \in KeepResources |->
                     refs[x] - CountArcs(KeepAliveArcs(apps[id].config.keep_alive), x)]
  /\ UNCHANGED <<config, buildResult, newResult, held, keepVars>>

NextKeep ==
  \/ Keep_build
  \/ Keep_App_new
  \/ Keep_drop_config
  \/ Keep_drop_handle
  \/ Keep_drop_app

SpecKeep == InitKeep /\ [][NextKeep]_vars

\* the Plans that exist
LivePlans == {id \in DOMAIN apps : apps[id].state = "Initialized"}

\* the objects a projection names in the roles the keep-alive set covers:
\* device, queue, command pool and each bound buffer
KeptHandles(g) ==
  {g.device, g.queue, g.command_pool}
    \cup g.buffer \cup g.input_buffer \cup g.output_buffer \cup g.temp_buffer
    \cup g.kernel

\* the roles of a projection that name r, counted from its raw handles
RolesNaming(g, r) ==
  CountArcs(<< Some(g.device), Some(g.queue), Some(g.command_pool),
               g.buffer, g.input_buffer, g.output_buffer, g.temp_buffer,
               g.kernel >>, r)

\* the sum of f over a set of Plans
RECURSIVE SumOver(_, _, _)
SumOver(ids, r, rest) ==
  IF ids = {} THEN rest
  ELSE LET id == CHOOSE i \in ids : TRUE IN
         SumOver(ids \ {id}, r, rest + RolesNaming(apps[id].config, r))

\* C15: while a Plan exists, its projection holds one strong reference per
\* role to the device, the queue, the command pool and every bound buffer:
\* none of them is destroyed, whatever handles the caller has dropped, and
\* the count of each is exactly the caller's handle, the Config's clones
\* and one per role of each existing Plan, so that a Plan's references go
\* when the Plan is destroyed and not before.
C15_KeepAlive ==
  pc = "keeping" =>
    /\ \A id \in LivePlans : \A r \in KeptHandles(apps[id].config) : refs[r] >= 1
    /\ \A r \in KeepResources \ {"ctx_physical", "ctx_fence"} :
         refs[r] = (IF r \in held.handles THEN 1 ELSE 0)
                     + (IF IsSome(config) THEN CountArcs(ConfigArcs(Unwrap(config)), r) ELSE 0)
                     + SumOver(LivePlans, r, 0)

\* a Plan with two buffers bound exists, the caller has dropped every handle
\* and holds no Config, and an earlier Plan has been destroyed
C15_Witness ==
  /\ pc = "keeping"
  /\ held.handles = {}
  /\ config = None
  /\ \E id \in LivePlans :
       /\ apps[id].config.buffer = Some("b1")
       /\ apps[id].config.kernel = Some("b2")
       /\ refs["b1"] = 1 /\ refs["b2"] = 1 /\ refs["ctx_queue"] = 1
  /\ \E id \in DOMAIN apps : apps[id].state = "Destroyed"

\* every object whose raw handle the projection holds
RawHandles(g) ==
  {g.physical_device, g.device, g.queue, g.command_pool, g.fence}
    \cup g.buffer \cup g.input_buffer \cup g.output_buffer \cup g.temp_buffer
    \cup g.kernel

\* C16: every object whose raw handle was copied into the projection
\* (physical device, device, queue, command pool, fence, bound buffers) is
\* alive for as long as the Plan built from it exists.
C16_HandlesOutlivePlan ==
  \A id \in LivePlans : \A r \in RawHandles(apps[id].config) : refs[r] >= 1

\* the errors that name an absent field of a builder
MissingFieldErrors ==
  {"NoPhysicalDevice", "NoDevice", "NoQueue", "NoFence", "NoCommandPool",
   "NoCommandBuffer"}

\* C17: every Plan built by start_fft_chain, chain_fft_with_config or
\* single_fft holds the Context's own physical device, device, queue,
\* command pool and fence, whatever the caller had set on the builder, and
\* no Context operation ends with a missing-field error.
C17_ContextHandles ==
  /\ \A id \in DOMAIN apps :
       /\ apps[id].config.physical_device = "ctx_physical"
       /\ apps[id].config.device = "ctx_device"
       /\ apps[id].config.queue = "ctx_queue"
       /\ apps[id].config.command_pool = "ctx_pool"
       /\ apps[id].config.fence = "ctx_fence"
       /\ apps[id].config.keep_alive.device = "ctx_device"
       /\ apps[id].config.keep_alive.queue = "ctx_queue"
       /\ apps[id].config.keep_alive.command_pool = "ctx_pool"
  /\ opResult \notin MissingFieldErrors

\* two Plans exist, one built from the empty builder and one from the
\* builder on which the caller had set another physical device and fence
C17_Witness ==
  /\ opResult = "Ok"
  /\ \E id \in DOMAIN apps :
       /\ apps[id].state = "Initialized"
       /\ apps[id].config.buffer = Some("b1")
       /\ apps[id].config.physical_device = "ctx_physical"
       /\ apps[id].config.fence = "ctx_fence"
  /\ \E id \in DOMAIN apps : apps[id].config.buffer = None

(***************************************************************************)
(* SpecOptions: ConfigBuilder::build, a write of the public precision      *)
(* field, and App::new, for every combination of a bounded set of builder  *)
(* options, sensible or not.                                               *)
(***************************************************************************)
\* apply setter f to each builder of bs, or leave the builder alone
RECURSIVE OptionalHandles(_, _)
OptionalHandles(bs, n) ==
  IF n = 0 THEN bs
  ELSE LET field == MandatoryHandles[n].field
           value == CASE field = "physical_device" -> "ctx_physical"
                      [] field = "device" -> "ctx_device"
                      [] field = "queue" -> "ctx_queue"
                      [] field = "fence" -> "ctx_fence"
                      [] field = "command_pool" -> "ctx_pool"
       IN OptionalHandles(bs \cup {[b EXCEPT ![field] = Some(value)] : b \in bs}, n - 1)

\* the builders a caller can reach with r2c, dct, convolution, kernel,
\* input_formatted and output_formatted, each called or not
OptionBuilders ==
  LET b0 == {ConfigBuilder_new}
      b1 == b0 \cup {ConfigBuilder_r2c(b) : b \in b0}
      b2 == b1 \cup {ConfigBuilder_dct(b, 1) : b \in b1}
      b3 == b2 \cup {ConfigBuilder_convolution(b) : b \in b2}
      b4 == b3 \cup {ConfigBuilder_kernel(b, "b2") : b \in b3}
      b5 == b4 \cup {ConfigBuilder_input_formatted(b, v) : b \in b4, v \in BOOLEAN}
      b6 == b5 \cup {ConfigBuilder_output_formatted(b, v) : b \in b5, v \in BOOLEAN}
  IN OptionalHandles(b6, Len(MandatoryHandles))

InitOptions ==
  /\ pc = "building"
  /\ builder \in {Some(b) : b \in OptionBuilders}
  /\ config = None
  /\ buildResult = "NotCalled" /\ newResult = "NotCalled"
  /\ apps = <<>> /\ log = <<>>
  /\ InitIdle

NextOptions ==
  \/ Call_build
  \/ Write_precision
  \/ Call_App_new
  \/ Drop_app

SpecOptions == InitOptions /\ [][NextOptions]_vars

\* C18: build fails exactly when a mandatory handle is absent; App::new
\* fails in as_sys exactly when the precision is HalfMemory and
\* input_formatted or output_formatted is explicitly false; for every other
\* Config, whatever its options, initializeVkFFT is called once with the
\* projection of that Config.
C18_NoOtherValidation ==
  /\ [][Call_build =>
          /\ (buildResult' = "Ok") <=> (AbsentHandles(Unwrap(builder)) = {})
          /\ (buildResult' = "Ok") <=> IsSome(config')]_vars
  /\ [][Call_App_new =>
          LET c == Unwrap(config)
              rejected == /\ c.precision = "HalfMemory"
                          /\ \/ c.input_formatted = Some(FALSE)
                             \/ c.output_formatted = Some(FALSE)
          IN
          /\ (newResult' = "InvalidConfig") <=> rejected
          /\ ~rejected =>
               /\ Len(apps') = Len(apps) + 1
               /\ apps'[Len(apps')].config.config = NativeConfig(c)
               /\ Len(log') >= Len(log) + 1
               /\ log'[Len(log) + 1] \in
                    {Event("initializeVkFFT", Len(apps'), 0, 0, s) : s \in EngineStatuses}
               /\ newResult' \in {"Ok", "VkFFTError"}]_vars

\* App::new has handed the engine a projection asking for r2c together with
\* dct and for a convolution without a kernel buffer
C18_Witness ==
  /\ pc = "new_done"
  /\ Len(apps) = 1
  /\ Len(log) >= 1 /\ log[1].op = "initializeVkFFT"
  /\ apps[1].config.config.performR2C = 1
  /\ apps[1].config.config.performDCT = 1
  /\ apps[1].config.config.performConvolution = 1
  /\ apps[1].config.config.kernel = NULL

\* the calls of submit and single_fft that reach the queue submission
ReachesSubmission ==
  \/ Seq_submit
  \/ Seq_single_fft /\ (pc' = "waiting" \/ opResult' = "panic")

\* C19: each submit makes exactly one queue-submission call, on the
\* Context's queue with the Context's fence and one descriptor wrapping one
\* command stream: queue_submit2 with a SubmitInfo2 iff synchronization2 is
\* enabled and the API version is at least 1.3, queue_submit2_khr with a
\* SubmitInfo2 iff synchronization2 is enabled and the version is below 1.3,
\* queue_submit with a SubmitInfo iff synchronization2 is not enabled.  No
\* other operation makes a queue-submission call.
C19_EntryPoint ==
  /\ [](\A i \in Submissions :
          /\ (log[i].op = "queue_submit2")
               <=> (device.synchronization2 /\ device.api_version >= V1_3)
          /\ (log[i].op = "queue_submit2_khr")
               <=> (device.synchronization2 /\ device.api_version < V1_3)
          /\ (log[i].op = "queue_submit") <=> ~device.synchronization2
          /\ Len(log[i].submits) = 1
          /\ log[i].submits[1].type =
               (IF log[i].op = "queue_submit" THEN "SubmitInfo" ELSE "SubmitInfo2")
          /\ log[i].submits[1].command_buffers = << log[i].cb >>
          /\ log[i].cb \in DOMAIN streams
          /\ log[i].queue = "ctx_queue"
          /\ log[i].fence = "ctx_fence")
  /\ [][IF ReachesSubmission
        THEN Cardinality(Submissions') = Cardinality(Submissions) + 1
        ELSE Submissions' = Submissions]_vars

\* a submission has been made through the extension entry point, and
\* submit has returned
C19_Witness ==
  /\ pc = "idle" /\ opResult = "Ok"
  /\ device.synchronization2 /\ device.api_version < V1_3
  /\ \E i \in Submissions :
       /\ log[i].op = "queue_submit2_khr"
       /\ log[i].submits[1].type = "SubmitInfo2"

(***************************************************************************)
(* SpecWait: SpecSubmit with the thread blocked in fence.wait(None) woken  *)
(* once the fence is signaled.  Nothing obliges the GPU to complete.       *)
(***************************************************************************)
SpecWait == SpecSubmit /\ WF_vars(Submit_return)

\* submit is blocked in the fence wait / has returned Ok
Waiting == pc = "waiting"
ReturnedOk == pc = "idle" /\ opResult = "Ok"

\* C20 as stated: once the fence of a successful submission is signaled,
\* submit eventually returns Ok; submit returns only after the fence was
\* signaled, so it never returns while the fence stays unsignaled.
C20_Original ==
  /\ (Waiting /\ fence = "signaled") ~> ReturnedOk
  /\ [][(Waiting /\ pc' = "idle") => fence = "signaled"]_vars

\* C20: once the fence of a successful submission is signaled, submit either
\* resets it and returns Ok or panics on a driver error reported by the wait
\* or the reset.  Submit returns only after the fence was signaled, with the
\* fence waited on and reset; while the fence is unsignaled the only way out
\* of the wait is that panic: there is no timeout and no cancellation.
C20_FenceWait ==
  /\ (Waiting /\ fence = "signaled") ~> (ReturnedOk \/ opResult = "panic")
  /\ [][(Waiting /\ pc' = "idle")
          => /\ fence = "signaled"
             /\ fence' = "unsignaled"
             /\ opResult' = "Ok"
             /\ Len(log') >= Len(log) + 2
             /\ log'[Len(log) + 1] = WaitForFences
             /\ log'[Len(log) + 2] = ResetFences]_vars
  /\ [][(Waiting /\ fence = "unsignaled" /\ pc' # "waiting")
          => /\ pc' \in {"panicked", "aborted"}
             /\ opResult' = "panic"
             /\ log'[Len(log) + 1] = WaitForFences
             /\ \A i \in Len(log) + 1 .. Len(log') : log'[i].op # "reset_fences"]_vars

\* submit has returned Ok after a wait and a reset that ended the log, the
\* GPU having completed the one submission
C20_Witness ==
  /\ ReturnedOk
  /\ inflight = {}
  /\ fence = "unsignaled"
  /\ Cardinality(Submissions) = 1
  /\ Len(log) >= 3
  /\ log[Len(log)] = ResetFences
  /\ log[Len(log) - 1] = WaitForFences
  /\ Len(log) - 2 \in Submissions

\* C21: the projection of a HalfMemory Config that as_sys accepts has
\* isInputFormatted and isOutputFormatted both 1, also when the caller left
\* them unset; for every other precision each flag is the caller's explicit
\* value, or 0 when unset.
C21_FormattedFlags ==
  [][(Call_App_new /\ newResult' # "InvalidConfig") =>
       LET c == Unwrap(config)
           n == apps'[Len(apps')].config.config
       IN
       IF c.precision = "HalfMemory"
       THEN /\ c.input_formatted # Some(FALSE)
            /\ c.output_formatted # Some(FALSE)
            /\ n.isInputFormatted = 1
            /\ n.isOutputFormatted = 1
       ELSE /\ n.isInputFormatted =
                 (IF c.input_formatted = Some(TRUE) THEN 1 ELSE 0)
            /\ n.isOutputFormatted =
                 (IF c.output_formatted = Some(TRUE) THEN 1 ELSE 0)]_vars

\* App::new has projected a HalfMemory Config: both flags are set
C21_Witness ==
  /\ pc = "new_done"
  /\ Len(apps) = 1
  /\ apps[1].config.config.halfPrecisionMemoryOnly = 1
  /\ apps[1].config.config.isInputFormatted = 1
  /\ apps[1].config.config.isOutputFormatted = 1

(***************************************************************************)
(* SpecRoles: build and App::new for every binding of the five buffer      *)
(* roles of a Config to no buffer or to one of the caller's buffers.       *)
(***************************************************************************)
\* the five roles: the Config field, the native pointer, the native size
\* pointer and the field of the guard that stores the size
RoleFields ==
  << [field |-> "buffer", ptr |-> "buffer", size_ptr |-> "bufferSize",
      size |-> "buffer_size"],
     [field |-> "temp_buffer", ptr |-> "tempBuffer", size_ptr |-> "tempBufferSize",
      size |-> "temp_buffer_size"],
     [field |-> "input_buffer", ptr |-> "inputBuffer", size_ptr |-> "inputBufferSize",
      size |-> "input_buffer_size"],
     [field |-> "output_buffer", ptr |-> "outputBuffer", size_ptr |-> "outputBufferSize",
      size |-> "output_buffer_size"],
     [field |-> "kernel", ptr |-> "kernel", size_ptr |-> "kernelSize",
      size |-> "kernel_size"] >>

\* builders with the Context's handles and any binding of the five roles
RoleBuilders ==
  { ConfigBuilder_kernel(
      ConfigBuilder_output_buffer(
        ConfigBuilder_input_buffer(
          ConfigBuilder_temp_buffer(
            ConfigBuilder_buffer(WithContextHandles(ConfigBuilder_new), b), t), i), o), k)
      : b \in Buffers, t \in Buffers, i \in Buffers, o \in Buffers, k \in Buffers }
  \cup
  { [WithContextHandles(ConfigBuilder_new) EXCEPT ![RoleFields[r].field] = Some(v)]
      : r \in DOMAIN RoleFields, v \in Buffers }
  \cup
  { [WithContextHandles(ConfigBuilder_new) EXCEPT
       ![RoleFields[r].field] = Some(v), ![RoleFields[q].field] = Some(w)]
      : r \in DOMAIN RoleFields, q \in DOMAIN RoleFields, v \in Buffers, w \in Buffers }
  \cup { WithContextHandles(ConfigBuilder_new) }

InitRoles ==
  /\ pc = "building"
  /\ builder \in {Some(b) : b \in RoleBuilders}
  /\ config = None
  /\ buildResult = "NotCalled" /\ newResult = "NotCalled"
  /\ apps = <<>> /\ log = <<>>
  /\ InitIdle

NextRoles ==
  \/ Call_build
  \/ Call_App_new
  \/ Drop_app

SpecRoles == InitRoles /\ [][NextRoles]_vars

\* C22: for each of the five roles, the projection's buffer pointer and size
\* pointer are both set when the Config has a buffer in the role, the buffer
\* pointer targeting the guard's copy of the handle and the size pointer the
\* guard's copy of the buffer's byte size; both are null when the role has no
\* buffer.
C22_RolePointers ==
  [][Call_App_new =>
       LET c == Unwrap(config)
           g == apps'[Len(apps')].config
       IN
       \A r \in DOMAIN RoleFields :
         LET role == RoleFields[r] IN
         IF IsSome(c[role.field])
         THEN /\ g.config[role.ptr] = AddrOf(role.field)
              /\ g[role.field] = c[role.field]
              /\ g.config[role.size_ptr] = AddrOf(role.size)
              /\ g[role.size] = BufferSize(Unwrap(c[role.field]))
         ELSE /\ g.config[role.ptr] = NULL
              /\ g.config[role.size_ptr] = NULL]_vars

\* a Plan whose projection has the kernel and the primary buffer set and the
\* other three roles null
C22_Witness ==
  /\ pc = "new_done"
  /\ Len(apps) = 1
  /\ apps[1].config.config.kernel = AddrOf("kernel")
  /\ apps[1].config.config.kernelSize = AddrOf("kernel_size")
  /\ apps[1].config.kernel_size = 128
  /\ apps[1].config.config.buffer = AddrOf("buffer")
  /\ apps[1].config.config.tempBuffer = NULL
  /\ apps[1].config.config.tempBufferSize = NULL
  /\ apps[1].config.config.inputBuffer = NULL
  /\ apps[1].config.config.outputBufferSize = NULL

\* C23: numberKernels is 1 in the projection exactly when convolution is set
\* on the Config and 0 otherwise, whatever the other options are.
C23_NumberKernels ==
  [][(Call_App_new /\ newResult' # "InvalidConfig") =>
       LET c == Unwrap(config)
           n == apps'[Len(apps')].config.config
       IN
       /\ (n.numberKernels = 1) <=> c.convolution
       /\ n.numberKernels \in {0, 1}
       /\ n.performConvolution = n.numberKernels]_vars

\* a projection with convolution and a kernel count of 1 but no kernel
\* buffer has been handed to the engine
C23_Witness ==
  /\ pc = "new_done"
  /\ Len(apps) = 1
  /\ apps[1].config.config.numberKernels = 1
  /\ apps[1].config.config.kernel = NULL
  /\ apps[1].config.config.performR2C = 0

\* the events a launch added to the log in this step
NewEvents == SubSeq(log', Len(log) + 1, Len(log'))

\* C24: forward and inverse run the same launch routine on the caller's
\* engine object: for the same Plan, parameters and engine answer they give
\* the same result and the same call of VkFFTAppend except for the direction,
\* which is -1 for forward and +1 for inverse; the call leaves the Plan and
\* the LaunchParams as they were (the projection built for the call is not
\* kept).
C24_ForwardInverse ==
  /\ [][Call_forward =>
          /\ \A i \in DOMAIN NewEvents :
               /\ NewEvents[i].op = "VkFFTAppend"
               /\ NewEvents[i].app = 1
               /\ NewEvents[i].dir = -1
               /\ NewEvents[i].cb = Unwrap(params).command_buffer
          /\ Len(NewEvents) <= 1
          /\ apps' = apps /\ params' = params]_vars
  /\ [][Call_inverse =>
          /\ \A i \in DOMAIN NewEvents :
               /\ NewEvents[i].op = "VkFFTAppend"
               /\ NewEvents[i].app = 1
               /\ NewEvents[i].dir = 1
               /\ NewEvents[i].cb = Unwrap(params).command_buffer
          /\ Len(NewEvents) <= 1
          /\ apps' = apps /\ params' = params]_vars
  /\ []((pc = "lp_built" /\ IsSome(params)) =>
          \A status \in EngineStatuses :
            LET f == App_forward(apps[1], 1, Unwrap(params), status)
                i == App_inverse(apps[1], 1, Unwrap(params), status)
            IN /\ f.res = i.res
               /\ Len(f.events) = Len(i.events)
               /\ \A k \in DOMAIN f.events :
                    /\ [f.events[k] EXCEPT !.dir = 0] = [i.events[k] EXCEPT !.dir = 0]
                    /\ f.events[k].dir = -1
                    /\ i.events[k].dir = 1)

\* the Plan has been launched forward and then inverse with the same
\* LaunchParams
C24_Witness ==
  /\ pc = "lp_built"
  /\ Len(log) = 3
  /\ log[2].op = "VkFFTAppend" /\ log[2].dir = -1 /\ log[2].app = 1
  /\ log[3].op = "VkFFTAppend" /\ log[3].dir = 1 /\ log[3].app = 1
  /\ log[2].cb = log[3].cb

(***************************************************************************)
(* SpecCleanup: the strong references across App::new, start_fft_chain,    *)
(* chain_fft_with_config and single_fft.  The caller holds one handle to   *)
(* each object and keeps it; what it builds (a ConfigBuilder with buffers, *)
(* a Config) holds clones, and is moved into the call.                     *)
(***************************************************************************)
\* the builders the caller makes: its buffers bound or not
CleanBuilders ==
  { ConfigBuilder_new,
    ConfigBuilder_buffer(ConfigBuilder_new, "b1"),
    ConfigBuilder_kernel(ConfigBuilder_buffer(ConfigBuilder_new, "b1"), "b2") }

\* the Configs the caller makes for App::new: built from those builders with
\* its handles, the precision field left alone or written to HalfMemory
CleanConfigs ==
  LET built == { Unwrap(ConfigBuilder_build(WithContextHandles(b)).config) :
                   b \in CleanBuilders
                          \cup {ConfigBuilder_input_formatted(b, FALSE) : b \in CleanBuilders} }
  IN built \cup {[c EXCEPT !.precision = "HalfMemory"] : c \in built}

\* the Arcs a ConfigBuilder holds
BuilderArcs(b) ==
  << b.physical_device, b.device, b.queue, b.command_pool,
     b.buffer, b.input_buffer, b.output_buffer, b.temp_buffer, b.kernel >>

\* the strong references the KeepAlives of the existing Plans of a hold on x
RECURSIVE KeepAliveRefs(_, _, _)
KeepAliveRefs(a, x, n) ==
  IF n = 0 THEN 0
  ELSE KeepAliveRefs(a, x, n - 1)
         + (IF a[n].state = "Initialized"
            THEN CountArcs(KeepAliveArcs(a[n].config.keep_alive), x)
            ELSE 0)

\* the command streams that exist: those the caller holds, open or built,
\* and the one a running submit holds.  The allocator of each holds a clone
\* of the device (context.rs 208-213).
StreamsAlive(h, f) ==
  Cardinality(h.builders \cup h.cbs \cup {c.cb : c \in f})

\* the counts after a step into which the Arcs `consumed` were moved: they
\* are dropped, each Plan carries its KeepAlive from App::new to its drop, and
\* each command stream its device
RefsFollow(consumed) ==
  refs' = [x \in KeepResources |->
             refs[x] - CountArcs(consumed, x)
               + KeepAliveRefs(apps', x, Len(apps')) - KeepAliveRefs(apps, x, Len(apps))
               + (IF x = "ctx_device"
                  THEN StreamsAlive(held', frame') - StreamsAlive(held, frame)
                  ELSE 0)]

InitCleanup ==
  /\ pc = "idle"
  /\ builder = None /\ config = None
  /\ buildResult = "NotCalled" /\ newResult = "NotCalled"
  /\ lpb = None /\ params = None
  /\ lpResult = "NotCalled" /\ launchResult = "NotCalled"
  /\ apps = <<>> /\ log = <<>>
  /\ fence = "unsignaled" /\ inflight = {} /\ streams = <<>>
  /\ held = EmptyHeld /\ frame = None /\ opResult = "NotCalled"
  /\ device = [synchronization2 |-> FALSE, api_version |-> V1_3]
  /\ refs = [r \in KeepResources |-> 1]
  /\ queue_state = None

cleanVars == <<buildResult, lpb, params, lpResult, launchResult, device,
               queue_state>>

\* the caller is between two calls and has nothing built
NothingBuilt == pc = "idle" /\ builder = None /\ config = None

\* ConfigBuilder::new() and the buffer setters, each given a clone
Clean_builder ==
  /\ NothingBuilt
  /\ CanAllocate
  /\ \E b \in CleanBuilders :
       /\ builder' = Some(b)
       /\ refs' = [x \in KeepResources |-> refs[x] + CountArcs(BuilderArcs(b), x)]
  /\ UNCHANGED <<pc, config, newResult, apps, log, fence, inflight, streams, held,
                 frame, opResult, cleanVars>>

\* a Config built by the caller from clones of its handles
Clean_config ==
  /\ NothingBuilt
  /\ CanAllocate
  /\ \E c \in CleanConfigs :
       /\ config' = Some(c)
       /\ refs' = [x \in KeepResources |-> refs[x] + CountArcs(ConfigArcs(c), x)]
  /\ UNCHANGED <<pc, builder, newResult, apps, log, fence, inflight, streams, held,
                 frame, opResult, cleanVars>>

\* App::new(config)
Clean_App_new ==
  /\ pc = "idle"
  /\ IsSome(config)
  /\ \E status \in EngineStatuses :
       LET r == App_new(Unwrap(config), Len(apps) + 1, status) IN
         /\ newResult' = r.res
         /\ opResult' = r.res
         /\ apps' = WithPlan(r.app)
         /\ log' = log \o r.events
         /\ held' = IF r.res = "Ok" THEN [held EXCEPT !.apps = @ \cup {Len(apps) + 1}]
                    ELSE held
  /\ config' = None
  /\ UNCHANGED <<pc, builder, fence, inflight, streams, frame, cleanVars>>
  /\ RefsFollow(ConfigArcs(Unwrap(config)))

\* context.start_fft_chain(builder, fft_type)
Clean_start_fft_chain ==
  /\ pc = "idle"
  /\ IsSome(builder)
  /\ \E t \in FftTypes, allocOk \in BOOLEAN, i \in EngineStatuses, a \in EngineStatuses :
       StartReturns(Context_start_fft_chain(Unwrap(builder), t, allocOk, i, a))
  /\ builder' = None
  /\ UNCHANGED <<pc, config, newResult, fence, inflight, frame, cleanVars>>
  /\ RefsFollow(BuilderArcs(Unwrap(builder)))

\* context.chain_fft_with_config(builder, stream, fft_type)
Clean_chain_fft_with_config ==
  /\ pc = "idle"
  /\ IsSome(builder)
  /\ \E s \in held.builders, t \in FftTypes, i \in EngineStatuses, a \in EngineStatuses :
       ChainWithConfigReturns(Context_chain_fft_with_config(Unwrap(builder), s, t, i, a), s)
  /\ builder' = None
  /\ UNCHANGED <<pc, config, newResult, fence, inflight, frame, cleanVars>>
  /\ RefsFollow(BuilderArcs(Unwrap(builder)))

\* context.single_fft(builder, fft_type), up to the fence wait
Clean_single_fft ==
  /\ pc = "idle"
  /\ IsSome(builder)
  /\ \E t \in FftTypes, allocOk \in BOOLEAN, i \in EngineStatuses, a \in EngineStatuses,
        buildOk \in BOOLEAN, q \in SubmitResults, unwind \in BOOLEAN :
       SingleFftStarted(Context_start_fft_chain(Unwrap(builder), t, allocOk, i, a), t,
                        Len(apps) + 1, Len(streams) + 1, buildOk, q, unwind)
  /\ builder' = None
  /\ held' = held
  /\ UNCHANGED <<config, newResult, cleanVars>>
  /\ RefsFollow(BuilderArcs(Unwrap(builder)))

\* single_fft's submit returns from the wait, or panics on the reset
Clean_submit_return ==
  /\ pc = "waiting"
  /\ fence = "signaled"
  /\ \E resetOk \in BOOLEAN, unwind \in BOOLEAN :
       AfterWait(Unwrap(frame), resetOk, unwind,
                 DropOwned(Unwrap(frame).app, resetOk \/ unwind, apps))
  /\ held' = held
  /\ UNCHANGED <<builder, config, newResult, inflight, streams, cleanVars>>
  /\ RefsFollow(<<>>)

NextCleanup ==
  \/ Clean_builder
  \/ Clean_config
  \/ Clean_App_new
  \/ Clean_start_fft_chain
  \/ Clean_chain_fft_with_config
  \/ Clean_single_fft
  \/ Gpu_complete
  \/ Clean_submit_return

SpecCleanup == InitCleanup /\ [][NextCleanup]_vars

\* the objects C25 counts: the buffers, the device, the queue, the pool
Counted == {"b1", "b2", "ctx_device", "ctx_queue", "ctx_pool"}

\* this step is one of the four calls returning an error to the caller
FailedAppNew == Clean_App_new /\ newResult' # "Ok"
FailedStart == Clean_start_fft_chain /\ opResult' # "Ok"
FailedChainWithConfig == Clean_chain_fft_with_config /\ opResult' # "Ok"
FailedSingleFft == Clean_single_fft /\ opResult' \notin {"Ok", "InProgress", "panic"}
FailedCall == FailedAppNew \/ FailedStart \/ FailedChainWithConfig \/ FailedSingleFft

\* every engine object initialized in this step was torn down in it, after
\* its init, and no Plan made in this step exists after it
TornDownInCall ==
  /\ \A i \in DOMAIN NewEvents :
       NewEvents[i].op = "initializeVkFFT" =>
         \E j \in DOMAIN NewEvents :
           /\ j > i
           /\ NewEvents[j].op = "deleteVkFFT"
           /\ NewEvents[j].app = NewEvents[i].app
  /\ \A id \in DOMAIN apps' \ DOMAIN apps : apps'[id].state = "Destroyed"
  /\ \A id \in DOMAIN apps : apps'[id] = apps[id]

\* C25 as stated: when one of the four calls returns an error, every engine
\* object it created is torn down and the count of each buffer, of the
\* device, the queue and the command pool is what it was before the call.
C25_Original ==
  [][FailedCall =>
       /\ TornDownInCall
       /\ \A x \in Counted : refs'[x] = refs[x]]_vars

\* C25: when one of the four calls returns an error, every engine object it
\* created is torn down, and no reference taken during the call survives:
\* the count of each buffer, of the device, the queue and the command pool
\* is its value before the call less the references owned by what was moved
\* into the call (the Config, the ConfigBuilder, and for
\* chain_fft_with_config the open command stream, which holds the device).
C25_ErrorCleanup ==
  /\ [][FailedAppNew =>
          /\ TornDownInCall
          /\ \A x \in Counted :
               refs'[x] = refs[x] - CountArcs(ConfigArcs(Unwrap(config)), x)]_vars
  /\ [][(FailedStart \/ FailedSingleFft) =>
          /\ TornDownInCall
          /\ \A x \in Counted :
               refs'[x] = refs[x] - CountArcs(BuilderArcs(Unwrap(builder)), x)]_vars
  /\ [][FailedChainWithConfig =>
          /\ TornDownInCall
          /\ \A x \in Counted :
               refs'[x] = refs[x] - CountArcs(BuilderArcs(Unwrap(builder)), x)
                            - (IF x = "ctx_device" THEN 1 ELSE 0)]_vars
  /\ [](NothingBuilt =>
          \A x \in Counted :
            refs[x] = 1 + KeepAliveRefs(apps, x, Len(apps))
                        + (IF x = "ctx_device" THEN StreamsAlive(held, frame) ELSE 0))

\* App::new has failed on the engine's init for a Config with two buffers,
\* after an earlier Plan was made: only the earlier Plan's references remain
C25_Witness ==
  /\ NothingBuilt
  /\ newResult = "VkFFTError"
  /\ Len(apps) = 2
  /\ apps[1].state = "Initialized"
  /\ apps[2].state = "Destroyed"
  /\ apps[2].config.kernel = Some("b2")
  /\ refs["b2"] = 1 + KeepAliveRefs(apps, "b2", 1)
  /\ refs["ctx_queue"] = 2

(***************************************************************************)
(* SpecTransform: a caller calls dct and dst on a builder in any order,    *)
(* builds the Config and hands it to App::new.  held.asked remembers the   *)
(* last type given to each of the two options.                             *)
(***************************************************************************)
\* the transform types of the engine (1 to 4)
TransformTypes == 1 .. 4

InitTransform ==
  /\ pc = "building"
  /\ builder = Some(WithContextHandles(ConfigBuilder_new))
  /\ config = None
  /\ buildResult = "NotCalled" /\ newResult = "NotCalled"
  /\ lpb = None /\ params = None
  /\ lpResult = "NotCalled" /\ launchResult = "NotCalled"
  /\ apps = <<>> /\ log = <<>>
  /\ fence = "unsignaled" /\ inflight = {} /\ streams = <<>>
  /\ held = [apps |-> {}, params |-> {}, builders |-> {}, cbs |-> {},
             asked |-> [dct |-> None, dst |-> None]]
  /\ frame = None /\ opResult = "NotCalled"
  /\ device = [synchronization2 |-> FALSE, api_version |-> 10]
  /\ refs = NoRefs
  /\ queue_state = None

transformVars == <<pc, config, buildResult, newResult, apps, log, launchVars,
                   fence, inflight, streams, frame, opResult, device, refs, queue_state>>

\* builder.dct(v)
Transform_dct ==
  /\ pc = "building"
  /\ \E v \in TransformTypes :
       /\ builder' = Some(ConfigBuilder_dct(Unwrap(builder), v))
       /\ held' = [held EXCEPT !.asked.dct = Some(v)]
  /\ UNCHANGED transformVars

\* builder.dst(v)
Transform_dst ==
  /\ pc = "building"
  /\ \E v \in TransformTypes :
       /\ builder' = Some(ConfigBuilder_dst(Unwrap(builder), v))
       /\ held' = [held EXCEPT !.asked.dst = Some(v)]
  /\ UNCHANGED transformVars

NextTransform ==
  \/ Transform_dct
  \/ Transform_dst
  \/ Call_build
  \/ Call_App_new

SpecTransform == InitTransform /\ [][NextTransform]_vars

\* C26: the type last given to dst reaches the engine as performDST and the
\* type last given to dct as performDCT (0 for an option never called), for
\* any order of dct and dst calls.
C26_DctDst ==
  \A id \in DOMAIN apps :
    /\ apps[id].config.config.performDCT = UnwrapOr(held.asked.dct, 0)
    /\ apps[id].config.config.performDST = UnwrapOr(held.asked.dst, 0)

(***************************************************************************)
(* SpecDim: a caller calls dim on a builder any number of times, with      *)
(* arrays of 0 to 4 extents, builds the Config and hands it to App::new.   *)
(***************************************************************************)
\* the extents a caller passes
Extents == {2, 3}

\* the longest array passed to dim
MaxDimLen == 4

\* the arrays a caller passes to dim
DimArrays == UNION { [1 .. n -> Extents] : n \in 0 .. MaxDimLen }

InitDim ==
  /\ pc = "building"
  /\ builder = Some(WithContextHandles(ConfigBuilder_new))
  /\ config = None
  /\ buildResult = "NotCalled" /\ newResult = "NotCalled"
  /\ apps = <<>> /\ log = <<>>
  /\ InitIdle

\* builder.dim(&array): assert!(len <= 3) panics on a longer array, and the
\* builder, moved into the call, is dropped
Call_dim ==
  /\ pc = "building"
  /\ \E dim \in DimArrays :
       IF Len(dim) <= 3
       THEN /\ builder' = Some(ConfigBuilder_dim(Unwrap(builder), dim))
            /\ pc' = pc
       ELSE /\ builder' = None
            /\ pc' = "panicked"
  /\ UNCHANGED <<config, buildResult, newResult, apps, log, launchVars, contextVars>>

NextDim ==
  \/ Call_dim
  \/ Call_build
  \/ Call_App_new

SpecDim == InitDim /\ [][NextDim]_vars

\* C27: whatever builder calls returned, the Transform Description has
\* dimensionality 1, 2 or 3 and a 4th extent of 0, in the builder, in the
\* Config and in the projection; dim with more than 3 extents panics.
C27_Dimensionality ==
  /\ [](\A b \in builder \cup config :
          /\ b.fft_dim \in 1 .. 3
          /\ b.size[4] = 0)
  /\ [](\A id \in DOMAIN apps :
          /\ apps[id].config.config.FFTdim \in 1 .. 3
          /\ apps[id].config.config.size[4] = 0)
  /\ [][Call_dim => (pc' = "panicked" <=> builder' = None)]_vars

\* C29: in every configuration handed to the engine, each of the three axes
\* at or above the dimensionality has extent 1, whatever dim calls were made.
C29_NoStaleExtent ==
  \A id \in DOMAIN apps :
    \A axis \in 1 .. 3 :
      axis > apps[id].config.config.FFTdim => apps[id].config.config.size[axis] = 1

\* C30: when the launch inside chain_fft_with_app fails, by a role conflict
\* or by a non-success VkFFTAppend, the Plan passed in is torn down in the
\* call (deleteVkFFT is the last call made) and the caller has neither the
\* Plan nor the launch parameters afterwards; a Plan the caller holds is
\* never a destroyed one, and no call is made on a Plan after its teardown,
\* so the chain cannot be continued with it.
C30_ChainWithAppFailure ==
  /\ [][(Call_chain_fft_with_app /\ opResult' # "Ok")
          => \E id \in held.apps, p \in held.params :
               /\ apps[id].state = "Initialized"
               /\ apps'[id].state = "Destroyed"
               /\ Len(NewLog) >= 1
               /\ NewLog[Len(NewLog)] = Event("deleteVkFFT", id, 0, 0, 0)
               /\ Cardinality({i \in DOMAIN NewLog : NewLog[i].op = "deleteVkFFT"}) = 1
               /\ id \notin held'.apps
               /\ p \notin held'.params
               /\ opResult' \in {"VkFFTError", "ConfigSpecifiesBuffer",
                                 "ConfigSpecifiesTempBuffer", "ConfigSpecifiesInputBuffer",
                                 "ConfigSpecifiesOutputBuffer"}]_vars
  /\ [](\A id \in held.apps : apps[id].state = "Initialized")
  /\ [](\A id \in DOMAIN apps :
          \A i \in CallsOn(id, "deleteVkFFT") :
            \A j \in DOMAIN log : j > i => log[j].app # id)

\* chain_fft_with_app has failed on a role conflict: the Plan is destroyed
\* and no longer the caller's
C30_Witness ==
  /\ pc = "idle"
  /\ opResult = "ConfigSpecifiesBuffer"
  /\ Len(log) >= 1
  /\ log[Len(log)].op = "deleteVkFFT"
  /\ apps[log[Len(log)].app].state = "Destroyed"
  /\ log[Len(log)].app \notin held.apps
  /\ CallsOn(log[Len(log)].app, "VkFFTAppend") # {}

(***************************************************************************)
(* Two threads sharing one Context by reference (submit takes &self and    *)
(* Context is Sync), each calling submit on command streams of its own.    *)
(* A step is one call the thread makes: entering Queue::with, the queue    *)
(* submission, the return of the fence wait, the fence reset, leaving the  *)
(* closure.  Here pc and frame hold one entry per thread.                  *)
(***************************************************************************)
Threads == {1, 2}

\* finalized command streams the threads have to submit
ThreadStreams == 3

InitThreads ==
  /\ pc = [t \in Threads |-> "idle"]
  /\ builder = None /\ config = None
  /\ buildResult = "NotCalled" /\ newResult = "NotCalled"
  /\ lpb = None /\ params = None
  /\ lpResult = "NotCalled" /\ launchResult = "NotCalled"
  /\ apps = <<>> /\ log = <<>>
  /\ fence = "unsignaled" /\ inflight = {}
  /\ streams = [s \in 1 .. ThreadStreams |-> "executable"]
  /\ held = [EmptyHeld EXCEPT !.cbs = 1 .. ThreadStreams]
  /\ frame = [t \in Threads |-> None]
  /\ opResult = "NotCalled"
  /\ device \in ContextDevices
  /\ refs = NoRefs
  /\ queue_state = None

threadVars == <<builder, config, buildResult, newResult, launchVars, apps, device,
                refs>>

\* thread t calls context.submit(cb): the submit descriptors are built
Thread_submit ==
  /\ \E t \in Threads, cb \in held.cbs :
       /\ pc[t] = "idle"
       /\ held' = [held EXCEPT !.cbs = @ \ {cb}]
       /\ frame' = [frame EXCEPT ![t] = Some(Frame([op |-> "submit", fft_type |-> "none"],
                                                    None, cb))]
       /\ pc' = [pc EXCEPT ![t] = "entering"]
  /\ UNCHANGED <<log, fence, inflight, streams, opResult, queue_state, threadVars>>

\* self.queue.with(|_| ...): thread t blocks until the queue's mutex is
\* free and holds it, as the closure's argument, until the closure is left
Thread_lock ==
  /\ \E t \in Threads :
       /\ pc[t] = "entering"
       /\ queue_state = None
       /\ queue_state' = Some(t)
       /\ pc' = [pc EXCEPT ![t] = "locked"]
  /\ UNCHANGED <<log, fence, inflight, streams, held, frame, opResult, threadVars>>

\* a panic of thread t inside the closure: unwinding drops the closure's
\* argument, which unlocks the queue, and ends only thread t; an abort ends
\* every thread
ThreadPanic(t, unwind) ==
  /\ pc' = IF unwind THEN [pc EXCEPT ![t] = "panicked"]
                     ELSE [u \in Threads |-> "aborted"]
  /\ queue_state' = IF unwind THEN None ELSE queue_state
  /\ streams' = IF unwind /\ streams[Unwrap(frame[t]).cb] = "executable"
                THEN [streams EXCEPT ![Unwrap(frame[t]).cb] = "dropped"]
                ELSE streams
  /\ frame' = IF unwind THEN [frame EXCEPT ![t] = None] ELSE frame
  /\ opResult' = "panic"

\* the queue submission of thread t with the Context's fence; a non-success
\* result panics
Thread_queue_submit ==
  /\ \E t \in Threads, q \in SubmitResults, unwind \in BOOLEAN :
       /\ pc[t] = "locked"
       /\ log' = Append(log, QueueSubmit(Unwrap(frame[t]).cb, q))
       /\ IF q = VK_SUCCESS
          THEN /\ inflight' = inflight \cup {Unwrap(frame[t]).cb}
               /\ streams' = [streams EXCEPT ![Unwrap(frame[t]).cb] = "pending"]
               /\ pc' = [pc EXCEPT ![t] = "waiting"]
               /\ UNCHANGED <<frame, opResult, queue_state>>
          ELSE /\ ThreadPanic(t, unwind)
               /\ UNCHANGED inflight
  /\ UNCHANGED <<fence, held, threadVars>>

\* self.fence.wait(None) of thread t returns Ok once the fence is signaled
Thread_wait_return ==
  /\ \E t \in Threads :
       /\ pc[t] = "waiting"
       /\ fence = "signaled"
       /\ log' = Append(log, WaitForFences)
       /\ pc' = [pc EXCEPT ![t] = "signaled"]
  /\ UNCHANGED <<fence, inflight, streams, held, frame, opResult, queue_state,
                 threadVars>>

\* self.fence.wait(None) of thread t returns an error: unwrap() panics
Thread_wait_fault ==
  /\ \E t \in Threads, unwind \in BOOLEAN :
       /\ pc[t] = "waiting"
       /\ log' = Append(log, WaitForFences)
       /\ ThreadPanic(t, unwind)
  /\ UNCHANGED <<fence, inflight, held, threadVars>>

\* self.fence.reset() of thread t; an error panics in unwrap()
Thread_reset ==
  /\ \E t \in Threads, resetOk \in BOOLEAN, unwind \in BOOLEAN :
       /\ pc[t] = "signaled"
       /\ log' = Append(log, ResetFences)
       /\ IF resetOk
          THEN /\ fence' = "unsignaled"
               /\ pc' = [pc EXCEPT ![t] = "reset"]
               /\ UNCHANGED <<streams, frame, opResult, queue_state>>
          ELSE /\ ThreadPanic(t, unwind)
               /\ UNCHANGED fence
  /\ UNCHANGED <<inflight, held, threadVars>>

\* the closure of thread t is left, which unlocks the queue, and submit
\* returns Ok(())
Thread_return ==
  /\ \E t \in Threads :
       /\ pc[t] = "reset"
       /\ queue_state' = None
       /\ frame' = [frame EXCEPT ![t] = None]
       /\ pc' = [pc EXCEPT ![t] = "idle"]
       /\ opResult' = "Ok"
  /\ UNCHANGED <<log, fence, inflight, streams, held, threadVars>>

NextThreads ==
  \/ Thread_submit
  \/ Thread_lock
  \/ Thread_queue_submit
  \/ Gpu_complete
  \/ Thread_wait_return
  \/ Thread_wait_fault
  \/ Thread_reset
  \/ Thread_return

SpecThreads == InitThreads /\ [][NextThreads]_vars

\* thread t is inside the closure handed to Queue::with
InClosure(t) == pc[t] \in {"locked", "waiting", "signaled", "reset"}

\* the submission, the wait and the reset of a call run with the queue's
\* mutex held by the calling thread, so at most one thread is among them
QueueSerialized ==
  /\ \A t \in Threads : InClosure(t) => queue_state = Some(t)
  /\ \A t, u \in Threads : InClosure(t) /\ InClosure(u) => t = u

\* a thread's submission was accepted by the queue in this step
SubmissionAccepted(t) == pc[t] = "locked" /\ pc'[t] = "waiting"

====
